---- MODULE Spec2Model ----
(***************************************************************************)
(* A model of the lidar-pc geometry core: run_tracking (tracking.py) and   *)
(* run_reconstruction (reconstruction.py) with the rotation/quaternion     *)
(* conversions of utils.py; and of capture_session with its keyframe       *)
(* selector (capture.py), allocate_session_dir (utils.py) and main         *)
(* (cli.py).                                                               *)
(*                                                                         *)
(* Numbers.  Floats are modelled by exact integers on a domain where the   *)
(* code's arithmetic is exact: rotation matrices are the integer matrices  *)
(* of the tetrahedral rotation group (identity, the three 180-degree axis  *)
(* rotations, the eight 120-degree rotations), whose unit quaternions have *)
(* components in {0, +-1/2, +-1}.  A quaternion component q is stored as   *)
(* the integer 2*q ("half units"); translations and points are integer     *)
(* vectors in one length unit.                                             *)
(*                                                                         *)
(* The results of the OpenCV calls (imread, detectAndCompute, match,       *)
(* findEssentialMat, recoverPose, triangulatePoints) and of the optional   *)
(* open3d / trimesh capabilities are inputs of the model, drawn with \E.   *)
(***************************************************************************)
EXTENDS Integers, Sequences, FiniteSets, TLC

\* ------------------------------------------------------------------ bounds
MaxFrames == 3
MaxInliers == 4
MaxMinInliers == 2
MaxSourceFrames == 3
MaxRunDirs == 3
MaxBusIds == 2
MaxPolls == 2

\* ------------------------------------------------- program constants
\* tracking.py:74, 87 and reconstruction.py:57, 61: fewer than 8 keypoints or
\* matches end the step.
MinFeatures == 8

\* reconstruction.py:95: the match cap of the quality profile.
HighMaxMatches == 1200

MediumMaxMatches == 500

\* reconstruction.py:76: a triangulated point is kept when its norm is below 100.
MaxDistance == 100

\* reconstruction.py:123: the gray of the fallback cloud.
FallbackGray == 180

\* reconstruction.py:134, 138: colors are scaled by 255 for open3d and back.
ColorMax == 255

\* reconstruction.py:135: outlier removal runs on more than 50 points.
OutlierMinPoints == 50

\* reconstruction.py:151: the mesh is exported from at least 30 points.
MeshMinPoints == 30

\* --------------------------------------------------------- arithmetic
Q(x) == 2 * x

Abs(x) == IF x < 0 THEN -x ELSE x

Sqrt(n) == CHOOSE r \in 0..n : r * r <= n /\ n < (r + 1) * (r + 1)

Dot(a, b) == a[1] * b[1] + a[2] * b[2] + a[3] * b[3]

Col(m, j) == <<m[1][j], m[2][j], m[3][j]>>

MatVec(m, v) == <<Dot(m[1], v), Dot(m[2], v), Dot(m[3], v)>>

MatMul(a, b) == [i \in 1..3 |-> [j \in 1..3 |-> Dot(a[i], Col(b, j))]]

VecAdd(a, b) == <<a[1] + b[1], a[2] + b[2], a[3] + b[3]>>

Eye3 == <<<<1, 0, 0>>, <<0, 1, 0>>, <<0, 0, 1>>>>

Zero3 == <<0, 0, 0>>

RotX180 == <<<<1, 0, 0>>, <<0, -1, 0>>, <<0, 0, -1>>>>

RotY180 == <<<<-1, 0, 0>>, <<0, 1, 0>>, <<0, 0, -1>>>>

RotZ180 == <<<<-1, 0, 0>>, <<0, -1, 0>>, <<0, 0, 1>>>>

Rot120 == <<<<0, 0, 1>>, <<1, 0, 0>>, <<0, 1, 0>>>>

\* The relative rotations recoverPose may return: generators of the
\* tetrahedral group (they do not commute).
RelRotations == {Eye3, RotX180, Rot120}

\* The relative translations recoverPose may return (the zero vector is the
\* case the code guards with norm > 1e-8).
RelTranslations == {Zero3, <<1, 0, 0>>, <<0, 0, 2>>}

StepScales == {1, 2}

FrameGaps == {1, 2}

\* ------------------------------------------------------------ utils.py
\* rotation_matrix_to_quaternion_xyzw: the result <<x, y, z, w>> in half units.
\* s is the code's s; 0.25 * s in half units is s \div 2, and a / s in half
\* units is (2 * a) \div s.
Normalized(hw, hx, hy, hz) ==
    LET norm == Sqrt(hx * hx + hy * hy + hz * hz + hw * hw)
    IN  IF norm = 0 THEN <<0, 0, 0, Q(1)>>
        ELSE <<(Q(1) * hx) \div norm, (Q(1) * hy) \div norm,
               (Q(1) * hz) \div norm, (Q(1) * hw) \div norm>>

\* rotation_matrix_to_quaternion_xyzw with qw negated where the trace is not
\* positive.
QuaternionConjugated(m) ==
    LET trace == m[1][1] + m[2][2] + m[3][3]
    IN  IF trace > 0 THEN
            LET s == Sqrt(trace + 1) * 2
            IN  Normalized(s \div 2,
                          Q(m[3][2] - m[2][3]) \div s,
                          Q(m[1][3] - m[3][1]) \div s,
                          Q(m[2][1] - m[1][2]) \div s)
        ELSE IF m[1][1] > m[2][2] /\ m[1][1] > m[3][3] THEN
            LET s == Sqrt(1 + m[1][1] - m[2][2] - m[3][3]) * 2
            IN  Normalized(Q(m[2][3] - m[3][2]) \div s,
                          s \div 2,
                          Q(m[1][2] + m[2][1]) \div s,
                          Q(m[1][3] + m[3][1]) \div s)
        ELSE IF m[2][2] > m[3][3] THEN
            LET s == Sqrt(1 + m[2][2] - m[1][1] - m[3][3]) * 2
            IN  Normalized(Q(m[3][1] - m[1][3]) \div s,
                          Q(m[1][2] + m[2][1]) \div s,
                          s \div 2,
                          Q(m[2][3] + m[3][2]) \div s)
        ELSE
            LET s == Sqrt(1 + m[3][3] - m[1][1] - m[2][2]) * 2
            IN  Normalized(Q(m[1][2] - m[2][1]) \div s,
                          Q(m[1][3] + m[3][1]) \div s,
                          Q(m[2][3] + m[3][2]) \div s,
                          s \div 2)

\* The branches of rotation_matrix_to_quaternion_xyzw chosen without comparing
\* the first diagonal entry with the third.
QuaternionPartsFirstOverSecond(m) ==
    LET trace    == m[1][1] + m[2][2] + m[3][3]
        branch   == IF trace > 0 THEN "w"
                    ELSE IF m[1][1] > m[2][2] THEN "x"
                    ELSE IF m[2][2] > m[3][3] THEN "y"
                    ELSE "z"
        radicand == IF branch = "w" THEN trace + 1
                    ELSE IF branch = "x" THEN 1 + m[1][1] - m[2][2] - m[3][3]
                    ELSE IF branch = "y" THEN 1 + m[2][2] - m[1][1] - m[3][3]
                    ELSE 1 + m[3][3] - m[1][1] - m[2][2]
        s        == IF radicand < 0 THEN 0 ELSE Sqrt(radicand) * 2
        Over(a)  == IF s = 0 THEN 0 ELSE Q(a) \div s
        raw      == IF branch = "w"
                    THEN <<Over(m[3][2] - m[2][3]), Over(m[1][3] - m[3][1]),
                           Over(m[2][1] - m[1][2]), s \div 2>>
                    ELSE IF branch = "x"
                    THEN <<s \div 2, Over(m[1][2] + m[2][1]),
                           Over(m[1][3] + m[3][1]), Over(m[3][2] - m[2][3])>>
                    ELSE IF branch = "y"
                    THEN <<Over(m[1][2] + m[2][1]), s \div 2,
                           Over(m[2][3] + m[3][2]), Over(m[1][3] - m[3][1])>>
                    ELSE <<Over(m[1][3] + m[3][1]), Over(m[2][3] + m[3][2]),
                           s \div 2, Over(m[2][1] - m[1][2])>>
        norm     == Sqrt(raw[1] * raw[1] + raw[2] * raw[2] + raw[3] * raw[3]
                             + raw[4] * raw[4])
    IN  [branch |-> branch, radicand |-> radicand, s |-> s, raw |-> raw, norm |-> norm,
         outcome |-> IF radicand < 0 THEN "raises"
                     ELSE IF s = 0 THEN "not_finite"
                     ELSE IF norm = 0 THEN "fallback"
                     ELSE "quaternion"]

\* utils.py:76-103: the branch rotation_matrix_to_quaternion_xyzw takes, the
\* quantity under its square root, s, the components <<qx, qy, qz, qw>> before
\* normalisation in half units, their norm, and how the function ends.  The
\* square root of a negative number is complex and float() of the norm raises;
\* a division by s = 0.0 gives infinities or NaN.
QuaternionParts(m) ==
    LET trace    == m[1][1] + m[2][2] + m[3][3]
        branch   == IF trace > 0 THEN "w"
                    ELSE IF m[1][1] > m[2][2] /\ m[1][1] > m[3][3] THEN "x"
                    ELSE IF m[2][2] > m[3][3] THEN "y"
                    ELSE "z"
        radicand == IF branch = "w" THEN trace + 1
                    ELSE IF branch = "x" THEN 1 + m[1][1] - m[2][2] - m[3][3]
                    ELSE IF branch = "y" THEN 1 + m[2][2] - m[1][1] - m[3][3]
                    ELSE 1 + m[3][3] - m[1][1] - m[2][2]
        s        == IF radicand < 0 THEN 0 ELSE Sqrt(radicand) * 2
        Over(a)  == IF s = 0 THEN 0 ELSE Q(a) \div s
        raw      == IF branch = "w"
                    THEN <<Over(m[3][2] - m[2][3]), Over(m[1][3] - m[3][1]),
                           Over(m[2][1] - m[1][2]), s \div 2>>
                    ELSE IF branch = "x"
                    THEN <<s \div 2, Over(m[1][2] + m[2][1]),
                           Over(m[1][3] + m[3][1]), Over(m[3][2] - m[2][3])>>
                    ELSE IF branch = "y"
                    THEN <<Over(m[1][2] + m[2][1]), s \div 2,
                           Over(m[2][3] + m[3][2]), Over(m[1][3] - m[3][1])>>
                    ELSE <<Over(m[1][3] + m[3][1]), Over(m[2][3] + m[3][2]),
                           s \div 2, Over(m[2][1] - m[1][2])>>
        norm     == Sqrt(raw[1] * raw[1] + raw[2] * raw[2] + raw[3] * raw[3]
                             + raw[4] * raw[4])
    IN  [branch |-> branch, radicand |-> radicand, s |-> s, raw |-> raw, norm |-> norm,
         outcome |-> IF radicand < 0 THEN "raises"
                     ELSE IF s = 0 THEN "not_finite"
                     ELSE IF norm = 0 THEN "fallback"
                     ELSE "quaternion"]

rotation_matrix_to_quaternion_xyzw(m) ==
    LET trace == m[1][1] + m[2][2] + m[3][3]
    IN  IF trace > 0 THEN
            LET s == Sqrt(trace + 1) * 2
            IN  Normalized(s \div 2,
                          Q(m[3][2] - m[2][3]) \div s,
                          Q(m[1][3] - m[3][1]) \div s,
                          Q(m[2][1] - m[1][2]) \div s)
        ELSE IF m[1][1] > m[2][2] /\ m[1][1] > m[3][3] THEN
            LET s == Sqrt(1 + m[1][1] - m[2][2] - m[3][3]) * 2
            IN  Normalized(Q(m[3][2] - m[2][3]) \div s,
                          s \div 2,
                          Q(m[1][2] + m[2][1]) \div s,
                          Q(m[1][3] + m[3][1]) \div s)
        ELSE IF m[2][2] > m[3][3] THEN
            LET s == Sqrt(1 + m[2][2] - m[1][1] - m[3][3]) * 2
            IN  Normalized(Q(m[1][3] - m[3][1]) \div s,
                          Q(m[1][2] + m[2][1]) \div s,
                          s \div 2,
                          Q(m[2][3] + m[3][2]) \div s)
        ELSE
            LET s == Sqrt(1 + m[3][3] - m[1][1] - m[2][2]) * 2
            IN  Normalized(Q(m[2][1] - m[1][2]) \div s,
                          Q(m[1][3] + m[3][1]) \div s,
                          Q(m[2][3] + m[3][2]) \div s,
                          s \div 2)

\* quaternion_xyzw_to_rotation_matrix with the signs of the w products exchanged:
\* the matrix of the inverse rotation.
MatrixOfInverse(quat) ==
    LET x == quat[1]
        y == quat[2]
        z == quat[3]
        w == quat[4]
        n == x * x + y * y + z * z + w * w
    IN  IF n = 0 THEN Eye3
        ELSE
            LET xx == (4 * x * x) \div n
                xy == (4 * x * y) \div n
                xz == (4 * x * z) \div n
                yy == (4 * y * y) \div n
                yz == (4 * y * z) \div n
                zz == (4 * z * z) \div n
                wx == (4 * w * x) \div n
                wy == (4 * w * y) \div n
                wz == (4 * w * z) \div n
            IN  <<<<(Q(1) - (yy + zz)) \div 2, (xy + wz) \div 2, (xz - wy) \div 2>>,
                  <<(xy - wz) \div 2, (Q(1) - (xx + zz)) \div 2, (yz + wx) \div 2>>,
                  <<(xz + wy) \div 2, (yz - wx) \div 2, (Q(1) - (xx + yy)) \div 2>>>>

\* quaternion_xyzw_to_rotation_matrix: quat in half units, the matrix in units.
\* n is 4 * (x*x + y*y + z*z + w*w); a product such as x * y * s (s = 2 / n) is
\* kept in half units, (4 * x * y) \div n, and an entry is halved at the end.
quaternion_xyzw_to_rotation_matrix(quat) ==
    LET x == quat[1]
        y == quat[2]
        z == quat[3]
        w == quat[4]
        n == x * x + y * y + z * z + w * w
    IN  IF n = 0 THEN Eye3
        ELSE
            LET xx == (4 * x * x) \div n
                xy == (4 * x * y) \div n
                xz == (4 * x * z) \div n
                yy == (4 * y * y) \div n
                yz == (4 * y * z) \div n
                zz == (4 * z * z) \div n
                wx == (4 * w * x) \div n
                wy == (4 * w * y) \div n
                wz == (4 * w * z) \div n
            IN  <<<<(Q(1) - (yy + zz)) \div 2, (xy - wz) \div 2, (xz + wy) \div 2>>,
                  <<(xy + wz) \div 2, (Q(1) - (xx + zz)) \div 2, (yz - wx) \div 2>>,
                  <<(xz - wy) \div 2, (yz + wx) \div 2, (Q(1) - (xx + yy)) \div 2>>>>

\* ----------------------------------------------------------- models.py
TrajectoryPose(frame_index, keyframe_index, translation_m, quaternion_xyzw, tracking_state) ==
    [frame_index |-> frame_index, keyframe_index |-> keyframe_index,
     translation_m |-> translation_m, quaternion_xyzw |-> quaternion_xyzw,
     tracking_state |-> tracking_state, pose_source |-> "slam"]

\* TrajectoryPose.to_dict: the JSON object of a pose (tuples become lists).
to_dict(pose) ==
    [frame_index |-> pose.frame_index, keyframe_index |-> pose.keyframe_index,
     translation_m |-> [i \in 1..3 |-> pose.translation_m[i]],
     quaternion_xyzw |-> [i \in 1..4 |-> pose.quaternion_xyzw[i]],
     tracking_state |-> pose.tracking_state, pose_source |-> pose.pose_source]

\* TrajectoryPose.from_dict: only the first three / four numbers are read.
from_dict(value) ==
    [frame_index |-> value.frame_index, keyframe_index |-> value.keyframe_index,
     translation_m |-> <<value.translation_m[1], value.translation_m[2],
                         value.translation_m[3]>>,
     quaternion_xyzw |-> <<value.quaternion_xyzw[1], value.quaternion_xyzw[2],
                           value.quaternion_xyzw[3], value.quaternion_xyzw[4]>>,
     tracking_state |-> value.tracking_state, pose_source |-> value.pose_source]

\* The frame records capture_session writes: keyframe_index 0, 1, ..., n-1 and
\* frame_index strictly increasing from 0 (here every gap-th source frame is kept).
FrameRecordsOf(n, gap) ==
    [k \in 1..n |-> [frame_index |-> (k - 1) * gap, keyframe_index |-> k - 1]]

FrameRecordSets(n) == {FrameRecordsOf(n, gap) : gap \in FrameGaps}

\* ------------------------------------------------------------ state
VARIABLES
    frame_records,      \* meta/frames.jsonl as loaded by load_frame_records
    min_inliers,        \* run_tracking parameter
    step_scale_m,       \* run_tracking parameter
    tpc,                \* position in run_tracking: start, loop, done, raised
    idx,                \* the loop index of run_tracking
    world_rotation,
    world_translation,
    poses,
    last_step,          \* what the OpenCV calls of the last tracking step returned
    steps_good,         \* number of steps whose inlier count reached 2 * min_inliers
    trajectory_json,    \* meta/trajectory.json, NoFile until written
    tracking_summary    \* the TrackingSummary returned, NoFile until returned

tvars == <<frame_records, min_inliers, step_scale_m, tpc, idx, world_rotation,
           world_translation, poses, last_step, steps_good, trajectory_json,
           tracking_summary>>

VARIABLES
    quality,            \* run_reconstruction parameter
    rpc,                \* position in run_reconstruction
    ridx,               \* the loop index of run_reconstruction
    rposes,             \* the poses loaded by _load_poses
    points_world,       \* list of per-pair point blocks
    colors_world,       \* list of per-pair color blocks
    points,
    colors,
    last_pair,          \* what the OpenCV calls of the last pair returned
    cloud_step,         \* how the open3d block ended
    pointcloud_ply,     \* reconstruction/pointcloud.ply
    mesh_path,
    mesh_glb,           \* reconstruction/mesh.glb
    reconstruction_json,    \* reconstruction/reconstruction.json
    reconstruction_summary  \* the ReconstructionSummary returned

rvars == <<quality, rpc, ridx, rposes, points_world, colors_world, points, colors,
           last_pair, cloud_step, pointcloud_ply, mesh_path, mesh_glb,
           reconstruction_json, reconstruction_summary>>

VARIABLES
    capture_args,       \* capture_session parameters and the number of source frames
    cpc,                \* position in capture_session: idle, loop, done, raised
    source_index,       \* frame_index, the loop index of capture_session
    capture_records,    \* records, the frame records of the kept frames
    previous_keyframe_gray,
    frame_gray,         \* gray, the grey image of the frame last read
    frames_jsonl,       \* meta/frames.jsonl as capture_session writes it
    selector            \* the last call of should_keep_keyframe and what it returned

cvars == <<capture_args, cpc, source_index, capture_records, previous_keyframe_gray,
           frame_gray, frames_jsonl, selector>>

VARIABLES
    conversion,         \* a value handed to the conversions of utils.py, and the results
    cli,                \* a call of main: its arguments, its position, its outcome
    alloc,              \* a call of allocate_session_dir, and the directories it sees
    export,             \* a call of generate_capture_packets: the session, the packets
    wsl                 \* a call of attempt_wsl_camera_fix: the host, what was issued

qvars == <<conversion>>

lvars == <<cli>>

dvars == <<alloc>>

xvars == <<export>>

wvars == <<wsl>>

\* The variables of the operations other than run_tracking and run_reconstruction.
ovars == <<cvars, qvars, lvars, dvars, xvars, wvars>>

vars == <<tvars, rvars, ovars>>

NoFile == [run |-> "absent"]

None == "None"

\* No pair of run_reconstruction is being processed.
NoPair ==
    [outcome |-> "none", matches |-> -1, kept |-> <<>>, dropped |-> <<>>, seed |-> <<0, 0, 0>>]

\* No value has been handed to the conversions.
ConversionIdle == conversion = [kind |-> "none", input |-> <<>>, trail |-> <<>>]

\* main has not been called.
CliIdle == cli = [pc |-> "idle"]

\* allocate_session_dir has not been called.
AllocIdle == alloc = [pc |-> "idle"]

\* generate_capture_packets has not been called.
ExportIdle == export = [pc |-> "idle"]

\* attempt_wsl_camera_fix has not been called.
WslIdle == wsl = [pc |-> "idle"]

\* ---------------------------------------------------------- capture.py
\* A grayscale image is its sequence of pixels; no image is the empty sequence.
NoImage == <<>>

Images == {<<0, 0>>, <<0, 10>>, <<10, 10>>}

BlurScores == {39, 40}

\* capture.py:50: np.mean(cv2.absdiff(prev_gray, current_gray)) as the fraction
\* <<sum, count>>.
MeanAbsDiff(a, b) ==
    LET RECURSIVE Sum(_)
        Sum(k) == IF k = 0 THEN 0 ELSE Abs(a[k] - b[k]) + Sum(k - 1)
    IN  <<Sum(Len(a)), Len(a)>>

\* Python's %, for a positive divisor.
Mod(a, b) == a % b

\* should_keep_keyframe without the blur test.
KeepIgnoringBlur(prev_gray, current_gray, frame_index, frame_interval, pixel_delta_threshold, blur_score, blur_threshold) ==
    IF frame_index = 0 THEN TRUE
    ELSE IF prev_gray = NoImage
    THEN Mod(frame_index, IF frame_interval >= 1 THEN frame_interval ELSE 1) = 0
    ELSE LET delta == MeanAbsDiff(prev_gray, current_gray)
         IN  /\ Mod(frame_index, IF frame_interval >= 1 THEN frame_interval ELSE 1) = 0
             /\ delta[1] >= pixel_delta_threshold * delta[2]

\* should_keep_keyframe with the blur test ahead of the first-frame rule.
KeepBlurFirst(prev_gray, current_gray, frame_index, frame_interval, pixel_delta_threshold, blur_score, blur_threshold) ==
    IF blur_score < blur_threshold THEN FALSE
    ELSE IF frame_index = 0 THEN TRUE
    ELSE IF prev_gray = NoImage
    THEN Mod(frame_index, IF frame_interval >= 1 THEN frame_interval ELSE 1) = 0
    ELSE LET delta == MeanAbsDiff(prev_gray, current_gray)
         IN  /\ Mod(frame_index, IF frame_interval >= 1 THEN frame_interval ELSE 1) = 0
             /\ delta[1] >= pixel_delta_threshold * delta[2]

\* should_keep_keyframe judging frame 0 by the rules of the other frames.
KeepFirstLikeOthers(prev_gray, current_gray, frame_index, frame_interval, pixel_delta_threshold, blur_score, blur_threshold) ==
    IF blur_score < blur_threshold THEN FALSE
    ELSE IF prev_gray = NoImage
    THEN Mod(frame_index, IF frame_interval >= 1 THEN frame_interval ELSE 1) = 0
    ELSE LET delta == MeanAbsDiff(prev_gray, current_gray)
         IN  /\ Mod(frame_index, IF frame_interval >= 1 THEN frame_interval ELSE 1) = 0
             /\ delta[1] >= pixel_delta_threshold * delta[2]

\* capture.py:35-51.
should_keep_keyframe(prev_gray, current_gray, frame_index, frame_interval, pixel_delta_threshold, blur_score, blur_threshold) ==
    IF frame_index = 0 THEN TRUE
    ELSE IF blur_score < blur_threshold THEN FALSE
    ELSE IF prev_gray = NoImage
    THEN Mod(frame_index, IF frame_interval >= 1 THEN frame_interval ELSE 1) = 0
    ELSE LET delta == MeanAbsDiff(prev_gray, current_gray)
         IN  /\ Mod(frame_index, IF frame_interval >= 1 THEN frame_interval ELSE 1) = 0
             /\ delta[1] >= pixel_delta_threshold * delta[2]

\* A call of should_keep_keyframe: its arguments, and what it returned.
SelectorCall(prev_gray, current_gray, frame_index, frame_interval, pixel_delta_threshold, blur_score, blur_threshold, returned) ==
    [prev_gray |-> prev_gray, current_gray |-> current_gray, frame_index |-> frame_index,
     frame_interval |-> frame_interval, pixel_delta_threshold |-> pixel_delta_threshold,
     blur_score |-> blur_score, blur_threshold |-> blur_threshold,
     returned |-> returned,
     keep |-> returned /\ should_keep_keyframe(prev_gray, current_gray, frame_index,
                                               frame_interval, pixel_delta_threshold,
                                               blur_score, blur_threshold)]

\* No call of should_keep_keyframe has been made.
NoCall == SelectorCall(NoImage, NoImage, 0, 0, 0, 0, 0, FALSE)

\* A frame record numbered by the source frame.
FrameRecordBySource(frame_index, keyframe_index, blur_score) ==
    [frame_index |-> frame_index, keyframe_index |-> frame_index,
     blur_score |-> blur_score]

\* models.py:38-63: the fields of a FrameRecord that the pipeline reads.
FrameRecord(frame_index, keyframe_index, blur_score) ==
    [frame_index |-> frame_index, keyframe_index |-> keyframe_index,
     blur_score |-> blur_score]

\* capture_session has not been called.
CaptureIdle ==
    /\ capture_args = [capture_mode |-> "keyframes", frame_interval |-> 0,
                       blur_threshold |-> 0, pixel_delta_threshold |-> 0,
                       source_frames |-> 0]
    /\ cpc = "idle"
    /\ source_index = 0
    /\ capture_records = <<>>
    /\ previous_keyframe_gray = NoImage
    /\ frame_gray = NoImage
    /\ frames_jsonl = NoFile

\* The previous image follows every frame read, kept or not.
PreviousIsLastRead(keep, gray, previous) == gray

\* capture.py:180-181, 199: the image the next frame is compared with; a frame
\* that is not kept leaves the loop body before line 199.
NextPrevious(keep, gray, previous) == IF keep THEN gray ELSE previous

\* capture.py:168-199: one source frame of the loop of capture_session; its image
\* and its blur score are what the camera or the file gives.
CaptureFrame(kept) ==
    /\ cpc = "loop"
    /\ source_index < capture_args.source_frames
    /\ \E gray \in Images, blur \in BlurScores :
           LET full   == capture_args.capture_mode = "full_stream"
               called == SelectorCall(previous_keyframe_gray, gray, source_index,
                                      capture_args.frame_interval,
                                      capture_args.pixel_delta_threshold, blur,
                                      capture_args.blur_threshold, TRUE)
               keep   == full \/ called.keep
           IN  /\ keep = kept
               /\ selector' = IF full THEN selector ELSE called
               /\ capture_records' =
                      IF keep
                      THEN Append(capture_records,
                                  FrameRecord(source_index, Len(capture_records), blur))
                      ELSE capture_records
               /\ previous_keyframe_gray' =
                      NextPrevious(keep, gray, previous_keyframe_gray)
               /\ frame_gray' = gray
    /\ source_index' = source_index + 1
    /\ UNCHANGED <<capture_args, cpc, frames_jsonl>>
    /\ UNCHANGED <<tvars, rvars, qvars, lvars, dvars, xvars, wvars>>

\* capture.py:172-173: the frame is not kept.
CaptureSkip == CaptureFrame(FALSE)

\* capture.py:175-199: the frame is kept and its record appended.
CaptureKeep == CaptureFrame(TRUE)

\* capture.py:201-204: no frame was kept.
CaptureRaises ==
    /\ cpc = "loop"
    /\ source_index = capture_args.source_frames
    /\ capture_records = <<>>
    /\ cpc' = "raised"
    /\ UNCHANGED <<capture_args, source_index, capture_records, previous_keyframe_gray,
                   frame_gray, frames_jsonl, selector>>
    /\ UNCHANGED <<tvars, rvars, qvars, lvars, dvars, xvars, wvars>>

\* capture.py:213: the records are written to meta/frames.jsonl.
CaptureFinish ==
    /\ cpc = "loop"
    /\ source_index = capture_args.source_frames
    /\ capture_records # <<>>
    /\ cpc' = "done"
    /\ frames_jsonl' = [run |-> "this", rows |-> capture_records]
    /\ UNCHANGED <<capture_args, source_index, capture_records, previous_keyframe_gray,
                   frame_gray, selector>>
    /\ UNCHANGED <<tvars, rvars, qvars, lvars, dvars, xvars, wvars>>

\* --------------------------------------------------------- tracking.py
NoStep == [cause |-> "none", inliers |-> -1]

\* _tracking_state with strict comparisons.
TrackingStateStrict(inliers, mi) ==
    IF inliers > mi * 2 THEN "good"
    ELSE IF inliers > mi THEN "limited"
    ELSE "lost"

_tracking_state(inliers, mi) ==
    IF inliers >= mi * 2 THEN "good"
    ELSE IF inliers >= mi THEN "limited"
    ELSE "lost"

\* rel_t left at the length recoverPose gave it.
NotRescaled(rel_translation, scale) == rel_translation

\* tracking.py:130-133: rel_t / norm * step_scale_m when norm > 1e-8.
Rescaled(rel_translation, scale) ==
    LET norm == Sqrt(Dot(rel_translation, rel_translation))
    IN  IF norm > 0
        THEN [i \in 1..3 |-> (rel_translation[i] * scale) \div norm]
        ELSE rel_translation

\* The update of tracking.py:129-135 without the guard on the state.
AdvanceAlways(state, translation, rotation, rel_t, rel_rotation) ==
    [translation |-> VecAdd(translation, MatVec(rotation, rel_t)),
     rotation |-> MatMul(rotation, rel_rotation)]

\* The update of tracking.py:134-135 in the other order: the rotation is
\* composed first and the translation moved with the new rotation.
AdvanceRotationFirst(state, translation, rotation, rel_t, rel_rotation) ==
    IF state # "lost"
    THEN [translation |-> VecAdd(translation, MatVec(MatMul(rotation, rel_rotation), rel_t)),
          rotation |-> MatMul(rotation, rel_rotation)]
    ELSE [translation |-> translation, rotation |-> rotation]

\* tracking.py:129-135: the world pose after a step that recoverPose classified.
Advance(state, translation, rotation, rel_t, rel_rotation) ==
    IF state # "lost"
    THEN [translation |-> VecAdd(translation, MatVec(rotation, rel_t)),
          rotation |-> MatMul(rotation, rel_rotation)]
    ELSE [translation |-> translation, rotation |-> rotation]

\* The pose of keyframe 0 with the identity quaternion in (w, x, y, z) order.
InitialPoseWxyz(first) ==
    TrajectoryPose(first.frame_index, first.keyframe_index, Zero3, <<Q(1), 0, 0, 0>>, "good")

\* tracking.py:44-52: the pose emitted for keyframe 0.
InitialPose(first) ==
    TrajectoryPose(first.frame_index, first.keyframe_index, Zero3, <<0, 0, 0, Q(1)>>, "good")

\* The appended pose with the two indices of the frame record exchanged.
EmittedPoseSwapped(current, translation, rotation, state) ==
    TrajectoryPose(current.keyframe_index, current.frame_index, translation,
                   rotation_matrix_to_quaternion_xyzw(rotation), state)

\* The pose appended for frame record `current` from the world pose.
EmittedPose(current, translation, rotation, state) ==
    TrajectoryPose(current.frame_index, current.keyframe_index, translation,
                   rotation_matrix_to_quaternion_xyzw(rotation), state)

\* tracking.py:61-70, 75-84, 88-97, 109-118: the pose of a step that is lost
\* before recoverPose, from the world pose as it stands.
LostPose(current, translation, rotation) ==
    EmittedPose(current, translation, rotation, "lost")

\* tracking.py:147, 157: good_count / max(len(poses), 1) as <<numerator, denominator>>.
Max(a, b) == IF a >= b THEN a ELSE b

\* The ratio counting every pose that is not lost.
GoodRatioTracked(ps) ==
    <<Cardinality({i \in 1..Len(ps) : ps[i].tracking_state # "lost"}), Max(Len(ps), 1)>>

\* The ratio of the good steps, the first pose left out of the count.
GoodRatioOfSteps(ps) ==
    <<Cardinality({i \in 2..Len(ps) : ps[i].tracking_state = "good"}), Max(Len(ps), 1)>>

GoodRatio(ps) ==
    <<Cardinality({i \in 1..Len(ps) : ps[i].tracking_state = "good"}), Max(Len(ps), 1)>>

\* tracking.py:149-160: the trajectory record.
TrajectoryRecord(ps) ==
    [schema_version |-> "v1", pose_source |-> "slam",
     poses |-> [i \in 1..Len(ps) |-> to_dict(ps[i])],
     metrics |-> [pose_count |-> Len(ps), good_ratio |-> GoodRatio(ps)]]

\* A step lost before recoverPose that raises out of run_tracking.
LostStepRaises(cause) ==
    /\ tpc = "loop"
    /\ idx < Len(frame_records)
    /\ tpc' = "raised"
    /\ last_step' = [cause |-> cause, inliers |-> -1]
    /\ UNCHANGED <<frame_records, min_inliers, step_scale_m, idx, world_rotation,
                   world_translation, poses, steps_good, trajectory_json,
                   tracking_summary>>
    /\ UNCHANGED <<rvars, ovars>>

\* A step that is lost before recoverPose: the pose is appended and the loop
\* continues with the world pose untouched.
LostStep(cause) ==
    /\ tpc = "loop"
    /\ idx < Len(frame_records)
    /\ poses' = Append(poses, LostPose(frame_records[idx + 1], world_translation,
                                       world_rotation))
    /\ idx' = idx + 1
    /\ last_step' = [cause |-> cause, inliers |-> -1]
    /\ UNCHANGED <<frame_records, min_inliers, step_scale_m, tpc, world_rotation,
                   world_translation, steps_good, trajectory_json, tracking_summary>>
    /\ UNCHANGED <<rvars, ovars>>

\* tracking.py:35-52: frame_records[0] raises IndexError on an empty session.
TrackStart ==
    /\ tpc = "start"
    /\ IF Len(frame_records) = 0
       THEN /\ tpc' = "raised"
            /\ poses' = poses
       ELSE /\ tpc' = "loop"
            /\ poses' = <<InitialPose(frame_records[1])>>
    /\ UNCHANGED <<frame_records, min_inliers, step_scale_m, idx, world_rotation,
                   world_translation, last_step, steps_good, trajectory_json,
                   tracking_summary>>
    /\ UNCHANGED <<rvars, ovars>>

\* tracking.py:58-70: cv2.imread returned None for the previous or current image.
TrackUnreadable ==
    \E prev_ok, curr_ok \in BOOLEAN :
        /\ ~prev_ok \/ ~curr_ok
        /\ LostStep("unreadable")

\* tracking.py:72-84: missing descriptors or fewer than 8 keypoints in an image.
TrackFewFeatures ==
    \E des1, des2 \in BOOLEAN, kp1, kp2 \in {MinFeatures - 1, MinFeatures} :
        /\ ~des1 \/ ~des2 \/ kp1 < MinFeatures \/ kp2 < MinFeatures
        /\ LostStep("features")

\* tracking.py:86-97: fewer than 8 matches.
TrackFewMatches ==
    \E matches \in {0, MinFeatures - 1, MinFeatures} :
        /\ matches < MinFeatures
        /\ LostStep("matches")

\* tracking.py:101-118: findEssentialMat returned None.
TrackNoEssential == LostStep("essential")

\* tracking.py:120-145: recoverPose returned inliers, rel_rotation, rel_translation.
TrackRecoverPose ==
    \E inliers \in 0..MaxInliers, rel_rotation \in RelRotations,
       rel_translation \in RelTranslations :
        LET state == _tracking_state(inliers, min_inliers)
            world == Advance(state, world_translation, world_rotation,
                             Rescaled(rel_translation, step_scale_m), rel_rotation)
        IN  /\ tpc = "loop"
            /\ idx < Len(frame_records)
            /\ world_translation' = world.translation
            /\ world_rotation' = world.rotation
            /\ poses' = Append(poses, EmittedPose(frame_records[idx + 1], world.translation,
                                                  world.rotation, state))
            /\ idx' = idx + 1
            /\ last_step' = [cause |-> "pose", inliers |-> inliers,
                             rel_rotation |-> rel_rotation,
                             rel_translation |-> rel_translation]
            /\ steps_good' = IF inliers >= 2 * min_inliers THEN steps_good + 1
                             ELSE steps_good
            /\ UNCHANGED <<frame_records, min_inliers, step_scale_m, tpc,
                           trajectory_json, tracking_summary>>
            /\ UNCHANGED <<rvars, ovars>>

\* tracking.py:147-165: the loop is exhausted; the trajectory record is written
\* and the summary returned.
TrackFinish ==
    /\ tpc = "loop"
    /\ idx = Len(frame_records)
    /\ tpc' = "done"
    /\ trajectory_json' = TrajectoryRecord(poses)
    /\ tracking_summary' = [pose_count |-> Len(poses), good_ratio |-> GoodRatio(poses)]
    /\ UNCHANGED <<frame_records, min_inliers, step_scale_m, idx, world_rotation,
                   world_translation, poses, last_step, steps_good>>
    /\ UNCHANGED <<rvars, ovars>>

\* None of the other operations has been called.
OthersIdle ==
    /\ CaptureIdle
    /\ selector = NoCall
    /\ ConversionIdle
    /\ CliIdle
    /\ AllocIdle
    /\ ExportIdle
    /\ WslIdle

\* run_reconstruction has not been called.
ReconIdle ==
    /\ quality = "high"
    /\ rpc = "idle"
    /\ ridx = 0
    /\ rposes = <<>>
    /\ points_world = <<>>
    /\ colors_world = <<>>
    /\ points = <<>>
    /\ colors = <<>>
    /\ last_pair = NoPair
    /\ cloud_step = "none"
    /\ pointcloud_ply = NoFile
    /\ mesh_path = None
    /\ mesh_glb = NoFile
    /\ reconstruction_json = NoFile
    /\ reconstruction_summary = NoFile

Init ==
    /\ frame_records \in UNION {FrameRecordSets(n) : n \in 0..MaxFrames}
    /\ min_inliers \in 0..MaxMinInliers
    /\ step_scale_m \in StepScales
    /\ tpc = "start"
    /\ idx = 1
    /\ world_rotation = Eye3
    /\ world_translation = Zero3
    /\ poses = <<>>
    /\ last_step = NoStep
    /\ steps_good = 0
    /\ trajectory_json = NoFile
    /\ tracking_summary = NoFile
    /\ ReconIdle
    /\ OthersIdle

Next ==
    \/ TrackStart
    \/ TrackUnreadable
    \/ TrackFewFeatures
    \/ TrackFewMatches
    \/ TrackNoEssential
    \/ TrackRecoverPose
    \/ TrackFinish

Spec == Init /\ [][Next]_vars

\* --------------------------------------------------- reconstruction.py
Min(a, b) == IF a <= b THEN a ELSE b

RECURSIVE Flatten(_)
Flatten(blocks) == IF blocks = <<>> THEN <<>> ELSE Head(blocks) \o Flatten(Tail(blocks))

\* reconstruction.py:30-43: the file _write_ascii_ply leaves: the header declares
\* len(points) vertices and zip(points, colors) gives the vertex lines.
_write_ascii_ply(pts, cols) ==
    [run |-> "this", writer |-> "ascii", vertex_count |-> Len(pts),
     vertices |-> [i \in 1..Min(Len(pts), Len(cols)) |-> <<pts[i], cols[i]>>],
     args |-> <<Len(pts), Len(cols)>>]

\* What detectAndCompute, match, findEssentialMat and triangulatePoints return
\* for a pair.  xyz row j of a pair with `seed` is seed + (j - 1, 0, 0), sampled
\* from the gray level (10 * j) mod 256 of the first image.
PairSeeds == {<<0, 0, 1>>, <<MaxDistance - 1, 0, 1>>, <<0, 0, 0>>}

MatchCandidates ==
    {0, MinFeatures - 1, MinFeatures, MeshMinPoints - 1, OutlierMinPoints,
     MediumMaxMatches + 1, HighMaxMatches + 1}

\* The candidate match counts of the pairs whose essential matrix is found.
TriangulatedCandidates == {MeshMinPoints - 1, OutlierMinPoints}

PairResults(may_triangulate) ==
    [des1 : {FALSE}, des2 : {TRUE}, kp1 : {0}, kp2 : {MinFeatures},
     candidates : {0}, essential : {FALSE}, seed : {Zero3}]
    \cup [des1 : {TRUE}, des2 : {FALSE}, kp1 : {MinFeatures}, kp2 : {0},
          candidates : {0}, essential : {FALSE}, seed : {Zero3}]
    \cup [des1 : {TRUE}, des2 : {TRUE}, kp1 : {MinFeatures - 1, MinFeatures},
          kp2 : {MinFeatures - 1}, candidates : {0}, essential : {FALSE}, seed : {Zero3}]
    \cup [des1 : {TRUE}, des2 : {TRUE}, kp1 : {MinFeatures}, kp2 : {MinFeatures},
          candidates : MatchCandidates, essential : {FALSE}, seed : {Zero3}]
    \cup [des1 : {TRUE}, des2 : {TRUE}, kp1 : {MinFeatures}, kp2 : {MinFeatures},
          candidates : TriangulatedCandidates, essential : {TRUE},
          seed : IF may_triangulate THEN PairSeeds ELSE {Zero3}]

Valid(p) == p[3] > 0 /\ Dot(p, p) < MaxDistance * MaxDistance

\* Row j of xyz and the color sampled for it.
Row(seed, j) == <<seed[1] + j - 1, seed[2], seed[3]>>

SampledColor(j) == [i \in 1..3 |-> (10 * j) % (ColorMax + 1)]

\* reconstruction.py:76-77: xyz[valid] of rows lo..hi, in row order.
RECURSIVE ValidPoints(_, _, _)
ValidPoints(seed, lo, hi) ==
    IF lo > hi THEN <<>>
    ELSE IF lo = hi THEN (IF Valid(Row(seed, lo)) THEN <<Row(seed, lo)>> ELSE <<>>)
    ELSE ValidPoints(seed, lo, (lo + hi) \div 2)
             \o ValidPoints(seed, (lo + hi) \div 2 + 1, hi)

\* reconstruction.py:82-86: the colors of pts1[valid] of rows lo..hi, in row order.
RECURSIVE ValidColors(_, _, _)
ValidColors(seed, lo, hi) ==
    IF lo > hi THEN <<>>
    ELSE IF lo = hi THEN (IF Valid(Row(seed, lo)) THEN <<SampledColor(lo)>> ELSE <<>>)
    ELSE ValidColors(seed, lo, (lo + hi) \div 2)
             \o ValidColors(seed, (lo + hi) \div 2 + 1, hi)

EmptyPair(reason, matches, kept, dropped) ==
    [points |-> <<>>, colors |-> <<>>, reason |-> reason, matches |-> matches,
     kept |-> kept, dropped |-> dropped]

\* What matcher.match returns for a pair with c candidate matches, in the
\* matcher's order, as runs of matches of one distance: the farther half first.
Matched(c) ==
    SelectSeq(<<[distance |-> 60, count |-> c - c \div 2],
                [distance |-> 20, count |-> c \div 2]>>,
              LAMBDA run : run.count > 0)

RECURSIVE CountMatches(_)
CountMatches(runs) ==
    IF runs = <<>> THEN 0 ELSE Head(runs).count + CountMatches(Tail(runs))

\* The matches in the matcher's order, not sorted.
Unsorted(runs) == runs

\* reconstruction.py:60: sorted(..., key=lambda match: match.distance), a stable
\* sort.
RECURSIVE SortedByDistance(_)
SortedByDistance(runs) ==
    LET RECURSIVE Insert(_, _)
        Insert(run, sorted) ==
            IF sorted = <<>> THEN <<run>>
            ELSE IF Head(sorted).distance < run.distance
            THEN <<Head(sorted)>> \o Insert(run, Tail(sorted))
            ELSE <<run>> \o sorted
    IN  IF runs = <<>> THEN <<>> ELSE Insert(Head(runs), SortedByDistance(Tail(runs)))

\* reconstruction.py:60: matches[:n], and the matches it leaves out.
RECURSIVE TakeMatches(_, _)
TakeMatches(runs, n) ==
    IF runs = <<>> \/ n <= 0 THEN <<>>
    ELSE IF Head(runs).count <= n
    THEN <<Head(runs)>> \o TakeMatches(Tail(runs), n - Head(runs).count)
    ELSE <<[distance |-> Head(runs).distance, count |-> n]>>

RECURSIVE DropMatches(_, _)
DropMatches(runs, n) ==
    IF runs = <<>> THEN <<>>
    ELSE IF n <= 0 THEN runs
    ELSE IF Head(runs).count <= n THEN DropMatches(Tail(runs), n - Head(runs).count)
    ELSE <<[distance |-> Head(runs).distance, count |-> Head(runs).count - n]>>
             \o Tail(runs)

\* reconstruction.py:46-88.
_triangulate_pair(r, max_matches) ==
    IF ~r.des1 \/ ~r.des2 \/ r.kp1 < MinFeatures \/ r.kp2 < MinFeatures
    THEN EmptyPair("features", -1, <<>>, <<>>)
    ELSE LET sorted  == SortedByDistance(Matched(r.candidates))
             kept    == TakeMatches(sorted, max_matches)
             dropped == DropMatches(sorted, max_matches)
             matches == CountMatches(kept)
         IN  IF matches < MinFeatures THEN EmptyPair("matches", matches, kept, dropped)
             ELSE IF ~r.essential THEN EmptyPair("essential", matches, kept, dropped)
             ELSE IF \A j \in 1..matches : ~Valid(Row(r.seed, j))
                  THEN EmptyPair("discarded", matches, kept, dropped)
                  ELSE [points |-> ValidPoints(r.seed, 1, matches),
                        colors |-> ValidColors(r.seed, 1, matches),
                        reason |-> "points", matches |-> matches,
                        kept |-> kept, dropped |-> dropped]

MaxMatchesOf(q) == IF q = "high" THEN HighMaxMatches ELSE MediumMaxMatches

\* The pose of the second keyframe of the pair.
PairPoseSecond(ps, i) == ps[i + 2]

\* reconstruction.py:111: poses[idx], the pose of the first keyframe of the pair
\* (idx counts from 0).
PairPose(ps, i) == ps[i + 1]

\* reconstruction.py:111-114: a pair's local points in the world frame of `pose`.
ToWorld(pose, local) ==
    LET rotation == quaternion_xyzw_to_rotation_matrix(pose.quaternion_xyzw)
    IN  [j \in 1..Len(local) |-> VecAdd(MatVec(rotation, local[j]), pose.translation_m)]

\* reconstruction.py:117-123.
MergedPoints(blocks, ps) ==
    IF blocks # <<>> THEN Flatten(blocks)
    ELSE [i \in 1..Len(ps) |-> ps[i].translation_m]

MergedColors(blocks, color_blocks, ps) ==
    IF blocks # <<>> THEN Flatten(color_blocks)
    ELSE [i \in 1..Len(ps) |-> <<FallbackGray, FallbackGray, FallbackGray>>]

\* reconstruction.py:134: colors.astype(float64) / 255.0, a color channel as the
\* fraction <<numerator, denominator>>.
ToUnitColor(c) == [i \in 1..3 |-> <<c[i], ColorMax>>]

\* reconstruction.py:138: clip(color * 255.0, 0, 255).astype(uint8) truncates.
FromUnitColor(f) ==
    [i \in 1..3 |-> Min(Max((f[i][1] * ColorMax) \div f[i][2], 0), ColorMax)]

\* reconstruction.py:136: the index range <<lo, hi>> of the points that
\* remove_statistical_outlier(nb_neighbors=20, std_ratio=2.0) keeps.  open3d keeps
\* a point when its mean distance to its neighbours is positive and below the
\* threshold: of coinciding points it keeps none; of others it may keep all or
\* drop some (here the first or the last).
OutlierKept(pts) ==
    IF \A i \in 1..Len(pts) : pts[i] = pts[1]
    THEN {<<1, 0>>}
    ELSE {<<1, Len(pts)>>, <<2, Len(pts)>>, <<1, Len(pts) - 1>>}

\* The open3d cloud filtered whatever its size.
O3dCloudAlwaysFiltered(pts, cols, keep) ==
    LET unit == [i \in 1..Len(cols) |-> ToUnitColor(cols[i])]
    IN  [points |-> SubSeq(pts, keep[1], keep[2]),
         colors |-> SubSeq(unit, keep[1], keep[2])]

\* reconstruction.py:132-136: the open3d cloud, filtered when it has more than
\* 50 points.
O3dCloud(pts, cols, keep) ==
    LET unit == [i \in 1..Len(cols) |-> ToUnitColor(cols[i])]
    IN  IF Len(pts) > OutlierMinPoints
        THEN [points |-> SubSeq(pts, keep[1], keep[2]),
              colors |-> SubSeq(unit, keep[1], keep[2])]
        ELSE [points |-> pts, colors |-> unit]

CloudColors(cloud) == [i \in 1..Len(cloud.colors) |-> FromUnitColor(cloud.colors[i])]

\* What o3d.io.write_point_cloud writes when it succeeds.
O3dPly(cloud) ==
    [run |-> "this", writer |-> "open3d", vertex_count |-> Len(cloud.points),
     vertices |-> [i \in 1..Len(cloud.points) |->
                      <<cloud.points[i], FromUnitColor(cloud.colors[i])>>],
     args |-> <<Len(cloud.points), Len(cloud.colors)>>]

\* The start of run_reconstruction taking a missing trajectory record for an
\* empty trajectory.
ReconStartLenient ==
    /\ rpc = "start"
    /\ rpc' = "pairs"
    /\ rposes' = IF trajectory_json = NoFile THEN <<>>
                 ELSE [i \in 1..Len(trajectory_json.poses) |->
                          from_dict(trajectory_json.poses[i])]
    /\ UNCHANGED <<quality, ridx, points_world, colors_world, points, colors, last_pair,
                   cloud_step, pointcloud_ply, mesh_path, mesh_glb,
                   reconstruction_json, reconstruction_summary>>
    /\ UNCHANGED <<tvars, ovars>>

\* reconstruction.py:91-98: the inputs are loaded; a missing trajectory record
\* raises out of _load_poses.
ReconStart ==
    /\ rpc = "start"
    /\ IF trajectory_json = NoFile
       THEN /\ rpc' = "raised"
            /\ rposes' = rposes
       ELSE /\ rpc' = "pairs"
            /\ rposes' = [i \in 1..Len(trajectory_json.poses) |->
                             from_dict(trajectory_json.poses[i])]
    /\ UNCHANGED <<quality, ridx, points_world, colors_world, points, colors, last_pair,
                   cloud_step, pointcloud_ply, mesh_path, mesh_glb,
                   reconstruction_json, reconstruction_summary>>
    /\ UNCHANGED <<tvars, ovars>>

PairStep(new_points, new_colors, outcome, matches, kept, dropped, seed) ==
    /\ rpc = "pairs"
    /\ ridx < Len(frame_records) - 1
    /\ ridx' = ridx + 1
    /\ points_world' = new_points
    /\ colors_world' = new_colors
    /\ last_pair' = [outcome |-> outcome, matches |-> matches, kept |-> kept,
                     dropped |-> dropped, seed |-> seed]
    /\ UNCHANGED <<quality, rpc, rposes, points, colors, cloud_step,
                   pointcloud_ply, mesh_path, mesh_glb, reconstruction_json,
                   reconstruction_summary>>
    /\ UNCHANGED <<tvars, ovars>>

\* reconstruction.py:102-105: an image of the pair is unreadable.
PairUnreadable ==
    \E a_ok, b_ok \in BOOLEAN :
        /\ ~a_ok \/ ~b_ok
        /\ PairStep(points_world, colors_world, "unreadable", -1, <<>>, <<>>, Zero3)

\* reconstruction.py:107-115: the pair is triangulated; an empty result is
\* skipped, any other is placed with the pose of the pair's first keyframe.
\* Only sessions of at most MaxFrames keyframes have images that triangulate.
PairTriangulate ==
    /\ rpc = "pairs"
    /\ \E r \in PairResults(Len(frame_records) <= MaxFrames) :
           LET tri == _triangulate_pair(r, MaxMatchesOf(quality))
           IN  IF Len(tri.points) = 0
               THEN PairStep(points_world, colors_world, tri.reason, tri.matches,
                             tri.kept, tri.dropped, r.seed)
               ELSE PairStep(Append(points_world,
                                    ToWorld(PairPose(rposes, ridx), tri.points)),
                             Append(colors_world, tri.colors), tri.reason, tri.matches,
                             tri.kept, tri.dropped, r.seed)

\* reconstruction.py:117-127: the loop is exhausted.
ReconMerge ==
    /\ rpc = "pairs"
    /\ ridx >= Len(frame_records) - 1
    /\ rpc' = "cloud"
    /\ points' = MergedPoints(points_world, rposes)
    /\ colors' = MergedColors(points_world, colors_world, rposes)
    /\ mesh_path' = None
    /\ last_pair' = NoPair
    /\ UNCHANGED <<quality, ridx, rposes, points_world, colors_world,
                   cloud_step, pointcloud_ply, mesh_glb, reconstruction_json,
                   reconstruction_summary>>
    /\ UNCHANGED <<tvars, ovars>>

CloudStep(new_points, new_colors, ply, how) ==
    /\ rpc = "cloud"
    /\ rpc' = "mesh"
    /\ points' = new_points
    /\ colors' = new_colors
    /\ pointcloud_ply' = ply
    /\ cloud_step' = how
    /\ UNCHANGED <<quality, ridx, rposes, points_world, colors_world, last_pair,
                   mesh_path, mesh_glb, reconstruction_json,
                   reconstruction_summary>>
    /\ UNCHANGED <<tvars, ovars>>

\* reconstruction.py:130, 143-144: open3d is not installed.
CloudAbsent == CloudStep(points, colors, _write_ascii_ply(points, colors), "absent")

\* reconstruction.py:130-136, 145-146: the import, the construction of the cloud
\* or remove_statistical_outlier raises.
CloudRaisesEarly ==
    CloudStep(points, colors, _write_ascii_ply(points, colors), "raised_early")

\* reconstruction.py:137-138, 145-146: points is reassigned from the cloud and
\* the conversion of the cloud's colors raises.
CloudRaisesAtColors ==
    \E keep \in OutlierKept(points) :
        LET cloud == O3dCloud(points, colors, keep)
        IN  CloudStep(cloud.points, colors, _write_ascii_ply(cloud.points, colors),
                      "raised_colors")

\* reconstruction.py:140, 145-146: write_point_cloud raises.
CloudWriteRaises ==
    \E keep \in OutlierKept(points) :
        LET cloud == O3dCloud(points, colors, keep)
        IN  CloudStep(cloud.points, CloudColors(cloud),
                      _write_ascii_ply(cloud.points, CloudColors(cloud)), "write_raised")

\* write_point_cloud returns False and nothing is written in its place.
CloudWriteFalseKept ==
    \E keep \in OutlierKept(points) :
        LET cloud == O3dCloud(points, colors, keep)
        IN  CloudStep(cloud.points, CloudColors(cloud), pointcloud_ply, "write_false")

\* reconstruction.py:140-142: write_point_cloud returns False.
CloudWriteFalse ==
    \E keep \in OutlierKept(points) :
        LET cloud == O3dCloud(points, colors, keep)
        IN  CloudStep(cloud.points, CloudColors(cloud),
                      _write_ascii_ply(cloud.points, CloudColors(cloud)), "write_false")

\* reconstruction.py:140-141: write_point_cloud returns True.
CloudWriteOk ==
    \E keep \in OutlierKept(points) :
        LET cloud == O3dCloud(points, colors, keep)
        IN  CloudStep(cloud.points, CloudColors(cloud), O3dPly(cloud), "write_ok")

MeshStep(path, file) ==
    /\ rpc = "mesh"
    /\ rpc' = "summary"
    /\ mesh_path' = path
    /\ mesh_glb' = file
    /\ UNCHANGED <<quality, ridx, rposes, points_world, colors_world, points, colors,
                   last_pair, cloud_step, pointcloud_ply, reconstruction_json,
                   reconstruction_summary>>
    /\ UNCHANGED <<tvars, ovars>>

\* reconstruction.py:149, 156-157: trimesh is not installed.
MeshAbsent == MeshStep(None, mesh_glb)

\* reconstruction.py:151: fewer than 30 points.
MeshTooFew ==
    /\ Len(points) < MeshMinPoints
    /\ MeshStep(mesh_path, mesh_glb)

\* reconstruction.py:152, 158-159: the convex hull raises.
MeshHullRaises ==
    /\ Len(points) >= MeshMinPoints
    /\ MeshStep(None, mesh_glb)

\* reconstruction.py:155, 158-159: export raises; the file it opened may be
\* left behind.
MeshExportRaises ==
    /\ Len(points) >= MeshMinPoints
    /\ \E file \in {mesh_glb, [run |-> "this", complete |-> FALSE, hull_of |-> Len(points)]} :
           MeshStep(None, file)

\* reconstruction.py:151-155: the hull is exported.
MeshExported ==
    /\ Len(points) >= MeshMinPoints
    /\ MeshStep("reconstruction/mesh.glb",
                [run |-> "this", complete |-> TRUE, hull_of |-> Len(points)])

\* reconstruction.py:161-174.
ReconFinish ==
    /\ rpc = "summary"
    /\ rpc' = "done"
    /\ reconstruction_json' =
           [run |-> "this", schema_version |-> "v1", point_count |-> Len(points),
            mesh_generated |-> (mesh_path # None), quality_profile |-> quality]
    /\ reconstruction_summary' =
           [pointcloud_path |-> "reconstruction/pointcloud.ply", mesh_path |-> mesh_path,
            point_count |-> Len(points)]
    /\ UNCHANGED <<quality, ridx, rposes, points_world, colors_world, points, colors,
                   last_pair, cloud_step, pointcloud_ply, mesh_path, mesh_glb>>
    /\ UNCHANGED <<tvars, ovars>>

\* exporter.py:140-146: the artifacts generate_capture_packets lists.
ManifestArtifacts ==
    (IF pointcloud_ply # NoFile THEN {"pointcloud_ply"} ELSE {})
    \cup (IF mesh_glb # NoFile THEN {"mesh_glb"} ELSE {})

\* The sessions run_reconstruction is started on.  The trajectory of a session
\* is the one run_tracking writes when every step has the same outcome.
SampleSteps ==
    {[cause |-> "features", inliers |-> -1, rel_rotation |-> Eye3, rel_translation |-> Zero3],
     [cause |-> "pose", inliers |-> 1, rel_rotation |-> RotX180,
      rel_translation |-> <<0, 0, 2>>],
     [cause |-> "pose", inliers |-> 2, rel_rotation |-> Rot120,
      rel_translation |-> <<1, 0, 0>>]}

RECURSIVE TrackedFrom(_, _, _, _, _)
TrackedFrom(records, o, mi, sc, acc) ==
    IF Len(acc.poses) = Len(records) THEN acc
    ELSE LET current == records[Len(acc.poses) + 1]
             state == IF o.cause = "pose" THEN _tracking_state(o.inliers, mi) ELSE "lost"
             world == Advance(state, acc.translation, acc.rotation,
                              Rescaled(o.rel_translation, sc), o.rel_rotation)
         IN  TrackedFrom(records, o, mi, sc,
                 [poses |-> Append(acc.poses,
                                   EmittedPose(current, world.translation, world.rotation, state)),
                  translation |-> world.translation, rotation |-> world.rotation,
                  good |-> acc.good + (IF o.cause = "pose" /\ o.inliers >= 2 * mi THEN 1 ELSE 0),
                  last |-> [cause |-> o.cause, inliers |-> o.inliers]])

Tracked(records, o) ==
    TrackedFrom(records, o, 1, 1,
                [poses |-> <<InitialPose(records[1])>>, translation |-> Zero3,
                 rotation |-> Eye3, good |-> 0, last |-> NoStep])

SessionSizes == (1..MaxFrames) \cup {OutlierMinPoints + 1}

ReconInit ==
    /\ \E n \in SessionSizes, o \in SampleSteps, tracked \in BOOLEAN :
           LET records == FrameRecordsOf(n, 2)
               t == Tracked(records, o)
           IN  /\ frame_records = records
               /\ min_inliers = 1
               /\ step_scale_m = 1
               /\ idx = IF tracked THEN n ELSE 1
               /\ IF tracked
                  THEN /\ tpc = "done"
                       /\ world_rotation = t.rotation
                       /\ world_translation = t.translation
                       /\ poses = t.poses
                       /\ last_step = IF n = 1 THEN NoStep ELSE t.last
                       /\ steps_good = t.good
                       /\ trajectory_json = TrajectoryRecord(t.poses)
                       /\ tracking_summary = [pose_count |-> n, good_ratio |-> GoodRatio(t.poses)]
                  ELSE /\ n = 2
                       /\ o.cause = "features"
                       /\ tpc = "start"
                       /\ world_rotation = Eye3
                       /\ world_translation = Zero3
                       /\ poses = <<>>
                       /\ last_step = NoStep
                       /\ steps_good = 0
                       /\ trajectory_json = NoFile
                       /\ tracking_summary = NoFile
    /\ quality \in {"high", "medium"}
    /\ rpc = "start"
    /\ ridx = 0
    /\ rposes = <<>>
    /\ points_world = <<>>
    /\ colors_world = <<>>
    /\ points = <<>>
    /\ colors = <<>>
    /\ last_pair = NoPair
    /\ cloud_step = "none"
    /\ mesh_path = None
    /\ \E earlier \in BOOLEAN :
           /\ pointcloud_ply = IF earlier /\ trajectory_json # NoFile
                               THEN [_write_ascii_ply(<<Zero3>>, <<Zero3>>) EXCEPT !.run = "earlier"]
                               ELSE NoFile
           /\ mesh_glb = IF earlier /\ trajectory_json # NoFile
                         THEN [run |-> "earlier", complete |-> TRUE, hull_of |-> MeshMinPoints]
                         ELSE NoFile
           /\ reconstruction_json =
                  IF earlier /\ trajectory_json # NoFile
                  THEN [run |-> "earlier", schema_version |-> "v1", point_count |-> MeshMinPoints,
                        mesh_generated |-> TRUE, quality_profile |-> "high"]
                  ELSE NoFile
    /\ reconstruction_summary = NoFile
    /\ OthersIdle

ReconNext ==
    \/ ReconStart
    \/ PairUnreadable
    \/ PairTriangulate
    \/ ReconMerge
    \/ CloudWriteOk
    \/ CloudWriteFalse
    \/ CloudWriteRaises
    \/ CloudRaisesAtColors
    \/ CloudRaisesEarly
    \/ CloudAbsent
    \/ MeshAbsent
    \/ MeshTooFew
    \/ MeshHullRaises
    \/ MeshExportRaises
    \/ MeshExported
    \/ ReconFinish

SpecRecon == ReconInit /\ [][ReconNext]_vars

\* ------------------------------------------- the two calls on one session
\* run_reconstruction is called on the session whose run_tracking raised.
ReconCall ==
    /\ tpc = "raised"
    /\ rpc = "idle"
    /\ rpc' = "start"
    /\ quality' \in {"high", "medium"}
    /\ UNCHANGED <<ridx, rposes, points_world, colors_world, points, colors, last_pair,
                   cloud_step, pointcloud_ply, mesh_path, mesh_glb,
                   reconstruction_json, reconstruction_summary>>
    /\ UNCHANGED <<tvars, ovars>>

\* A session run_tracking is called on, or one run_reconstruction is called on.
PipelineInit == Init \/ ReconInit

\* One call runs at a time: run_tracking makes no step once run_reconstruction
\* has been called.
TrackingNext == rpc = "idle" /\ Next

PipelineNext ==
    \/ TrackingNext
    \/ ReconCall
    \/ ReconNext

SpecPipeline == PipelineInit /\ [][PipelineNext]_vars

\* The sessions of at most MaxFrames keyframes, tracked with min_inliers = 1 and
\* step_scale_m = 1.
FairInit ==
    /\ PipelineInit
    /\ Len(frame_records) <= MaxFrames
    /\ min_inliers = 1
    /\ step_scale_m = 1

\* At every position of run_reconstruction one of these steps can be taken: the
\* start, a pair with an unreadable image, the merge, the ASCII file written
\* without open3d, the mesh skipped without trimesh, the summary.
ReconContinues ==
    \/ ReconStart
    \/ PairUnreadable
    \/ ReconMerge
    \/ CloudAbsent
    \/ MeshAbsent
    \/ ReconFinish

\* The interpreter keeps executing the call that is running: neither call stays
\* for ever at a position it can leave.  No step of run_reconstruction leads back
\* to a position, so weak fairness of ReconContinues excludes the behaviours that
\* stop where ReconNext has a step, and no others.
FairPipeline ==
    FairInit /\ [][PipelineNext]_vars /\ WF_vars(TrackingNext) /\ WF_vars(ReconContinues)

\* ------------------------------------------------------ capture_session
\* run_tracking has not been called.
TrackIdle ==
    /\ frame_records = <<>>
    /\ min_inliers = 1
    /\ step_scale_m = 1
    /\ tpc = "idle"
    /\ idx = 0
    /\ world_rotation = Eye3
    /\ world_translation = Zero3
    /\ poses = <<>>
    /\ last_step = NoStep
    /\ steps_good = 0
    /\ trajectory_json = NoFile
    /\ tracking_summary = NoFile

\* capture_session is called in either mode on up to MaxSourceFrames source
\* frames.
CaptureInit ==
    /\ TrackIdle
    /\ ReconIdle
    /\ capture_args \in [capture_mode : {"keyframes", "full_stream"},
                         frame_interval : {0, 1, 2},
                         blur_threshold : {40},
                         pixel_delta_threshold : {5},
                         source_frames : 0..MaxSourceFrames]
    /\ cpc = "loop"
    /\ source_index = 0
    /\ capture_records = <<>>
    /\ previous_keyframe_gray = NoImage
    /\ frame_gray = NoImage
    /\ frames_jsonl = NoFile
    /\ selector = NoCall
    /\ ConversionIdle
    /\ CliIdle
    /\ AllocIdle
    /\ ExportIdle
    /\ WslIdle

CaptureNext ==
    \/ CaptureSkip
    \/ CaptureKeep
    \/ CaptureRaises
    \/ CaptureFinish

SpecCapture == CaptureInit /\ [][CaptureNext]_vars

\* ------------------------------------------- should_keep_keyframe, called
\* should_keep_keyframe is called with any previous image or none, any frame
\* index and interval, and blur scores and motion on both sides of their
\* thresholds.
SelectorInit ==
    /\ TrackIdle
    /\ ReconIdle
    /\ CaptureIdle
    /\ ConversionIdle
    /\ CliIdle
    /\ AllocIdle
    /\ ExportIdle
    /\ WslIdle
    /\ \E prev_gray \in Images \cup {NoImage}, current_gray \in Images,
          frame_index \in 0..MaxSourceFrames, frame_interval \in -1..3,
          pixel_delta_threshold \in {0, 5, 6}, blur_score \in BlurScores,
          blur_threshold \in {0, 40} :
           selector = SelectorCall(prev_gray, current_gray, frame_index, frame_interval,
                                   pixel_delta_threshold, blur_score, blur_threshold, FALSE)

\* The call returns.
SelectorReturn ==
    /\ ~selector.returned
    /\ selector' = SelectorCall(selector.prev_gray, selector.current_gray,
                                selector.frame_index, selector.frame_interval,
                                selector.pixel_delta_threshold, selector.blur_score,
                                selector.blur_threshold, TRUE)
    /\ UNCHANGED <<capture_args, cpc, source_index, capture_records,
                   previous_keyframe_gray, frame_gray, frames_jsonl>>
    /\ UNCHANGED <<tvars, rvars, qvars, lvars, dvars, xvars, wvars>>

SpecSelector == SelectorInit /\ [][SelectorReturn]_vars

\* -------------------------------------------- the conversions of utils.py
MaxConversions == 3

\* The rotation matrices of the tetrahedral group.
Rotations ==
    {MatMul(a, b) : a \in {Eye3, Rot120, MatMul(Rot120, Rot120)},
                    b \in {Eye3, RotX180, RotY180, RotZ180}}

\* The unit quaternions <<x, y, z, w>> with components in {0, +-1/2, +-1}, in
\* half units.
UnitQuaternions ==
    {q \in {<<x, y, z, w>> : x, y, z, w \in -Q(1)..Q(1)} :
        q[1] * q[1] + q[2] * q[2] + q[3] * q[3] + q[4] * q[4] = Q(1) * Q(1)}

\* A rotation matrix or a unit quaternion is handed to the conversions.
ConversionInit ==
    /\ TrackIdle
    /\ ReconIdle
    /\ CaptureIdle
    /\ selector = NoCall
    /\ CliIdle
    /\ AllocIdle
    /\ ExportIdle
    /\ WslIdle
    /\ \/ \E m \in Rotations : conversion = [kind |-> "matrix", input |-> m, trail |-> <<>>]
       \/ \E q \in UnitQuaternions :
              conversion = [kind |-> "quaternion", input |-> q, trail |-> <<>>]

\* The value last produced, or the input.
ConversionLast ==
    IF conversion.trail = <<>> THEN conversion.input
    ELSE conversion.trail[Len(conversion.trail)]

\* The last value is a matrix.
ConversionHoldsMatrix ==
    (conversion.kind = "matrix") <=> (Len(conversion.trail) % 2 = 0)

\* utils.py:74-105 is applied to the matrix last produced.
ConvertToQuaternion ==
    /\ conversion.kind # "none"
    /\ Len(conversion.trail) < MaxConversions
    /\ ConversionHoldsMatrix
    /\ conversion' = [conversion EXCEPT !.trail =
                         Append(@, rotation_matrix_to_quaternion_xyzw(ConversionLast))]
    /\ UNCHANGED <<tvars, rvars, cvars, lvars, dvars, xvars, wvars>>

\* utils.py:108-124 is applied to the quaternion last produced.
ConvertToMatrix ==
    /\ conversion.kind # "none"
    /\ Len(conversion.trail) < MaxConversions
    /\ ~ConversionHoldsMatrix
    /\ conversion' = [conversion EXCEPT !.trail =
                         Append(@, quaternion_xyzw_to_rotation_matrix(ConversionLast))]
    /\ UNCHANGED <<tvars, rvars, cvars, lvars, dvars, xvars, wvars>>

ConversionNext ==
    \/ ConvertToQuaternion
    \/ ConvertToMatrix

SpecConversions == ConversionInit /\ [][ConversionNext]_vars

\* --------------------------------- rotation_matrix_to_quaternion_xyzw, any matrix
MaxEntry == 2

\* 3x3 matrices that need not be rotations: any diagonal, any entries above it,
\* and below it their mirror image, its negative, or zeros.
AnyMatrices ==
    {<<<<d[1], u[1], u[2]>>, <<k * u[1], d[2], u[3]>>, <<k * u[2], k * u[3], d[3]>>>> :
        d \in {<<a, b, c>> : a, b, c \in -MaxEntry..MaxEntry},
        u \in {<<a, b, c>> : a, b, c \in -1..1},
        k \in -1..1}

\* rotation_matrix_to_quaternion_xyzw is handed any of these matrices.
AnyMatrixInit ==
    /\ TrackIdle
    /\ ReconIdle
    /\ CaptureIdle
    /\ selector = NoCall
    /\ CliIdle
    /\ AllocIdle
    /\ ExportIdle
    /\ WslIdle
    /\ \E m \in AnyMatrices : conversion = [kind |-> "any", input |-> m, trail |-> <<>>]

\* utils.py:74-105 is applied to the matrix; what it computed on the way is kept
\* with the result.
ConvertAnyMatrix ==
    /\ conversion.kind = "any"
    /\ conversion.trail = <<>>
    /\ conversion' = [kind |-> "any", input |-> conversion.input,
                      trail |-> <<rotation_matrix_to_quaternion_xyzw(conversion.input)>>,
                      parts |-> QuaternionParts(conversion.input)]
    /\ UNCHANGED <<tvars, rvars, cvars, lvars, dvars, xvars, wvars>>

SpecAnyMatrix == AnyMatrixInit /\ [][ConvertAnyMatrix]_vars

\* ------------------------------------------------------------------ cli.py
\* cli.py:25-59: the subcommands the parser knows.
Subcommands == {"doctor", "calibrate", "capture", "reconstruct", "export"}

\* The first argument main may be given: a subcommand, or "run".
Commands == Subcommands \cup {"run"}

\* The files of the session directory that the stages read and write.
SessionFiles ==
    {"meta/frames.jsonl", "meta/trajectory.json", "reconstruction/pointcloud.ply",
     "exports/manifest.json"}

\* main has not returned.
NoExit == -1

\* main is called with a command and its options, on a session directory holding
\* any of the files.
CliInit ==
    /\ TrackIdle
    /\ ReconIdle
    /\ CaptureIdle
    /\ selector = NoCall
    /\ ConversionIdle
    /\ AllocIdle
    /\ ExportIdle
    /\ WslIdle
    /\ cli \in [pc : {"parse"}, command : Commands, options_ok : BOOLEAN,
                files : SUBSET SessionFiles, exit_code : {NoExit}, stages : {<<>>}]

\* cli.py:77-78: parse_args; the subparsers are required, and argparse leaves
\* with SystemExit(2) on a command it does not know or on a missing option.
CliParse ==
    /\ cli.pc = "parse"
    /\ cli' = IF cli.command \in Subcommands /\ cli.options_ok
              THEN [cli EXCEPT !.pc = "dispatch"]
              ELSE [cli EXCEPT !.pc = "exited", !.exit_code = 2]
    /\ UNCHANGED <<tvars, rvars, cvars, qvars, dvars, xvars, wvars>>

\* cli.py:81-85.
CliDoctor ==
    /\ cli.pc = "dispatch"
    /\ cli.command = "doctor"
    /\ \E healthy \in BOOLEAN :
           cli' = [cli EXCEPT !.pc = "returned", !.exit_code = IF healthy THEN 0 ELSE 1]
    /\ UNCHANGED <<tvars, rvars, cvars, qvars, dvars, xvars, wvars>>

\* cli.py:87-104: a board that does not parse leaves with SystemExit(message),
\* exit status 1; calibrate_camera may raise.
CliCalibrate ==
    /\ cli.pc = "dispatch"
    /\ cli.command = "calibrate"
    /\ \E outcome \in {"calibrated", "board", "raises"} :
           cli' = IF outcome = "calibrated"
                  THEN [cli EXCEPT !.pc = "returned", !.exit_code = 0]
                  ELSE IF outcome = "board"
                  THEN [cli EXCEPT !.pc = "exited", !.exit_code = 1]
                  ELSE [cli EXCEPT !.pc = "raised"]
    /\ UNCHANGED <<tvars, rvars, cvars, qvars, dvars, xvars, wvars>>

\* cli.py:106-130: capture_session writes into the directory allocate_session_dir
\* gives it, which holds nothing before; it raises when no frame is kept.
CliCapture ==
    /\ cli.pc = "dispatch"
    /\ cli.command = "capture"
    /\ \E kept \in BOOLEAN :
           cli' = IF kept
                  THEN [cli EXCEPT !.pc = "returned", !.exit_code = 0,
                                   !.files = {"meta/frames.jsonl"},
                                   !.stages = Append(@, "capture")]
                  ELSE [cli EXCEPT !.pc = "raised"]
    /\ UNCHANGED <<tvars, rvars, cvars, qvars, dvars, xvars, wvars>>

\* cli.py:132-138: run_tracking reads the frame records and writes the trajectory.
CliTrack ==
    /\ cli.pc = "dispatch"
    /\ cli.command = "reconstruct"
    /\ cli' = IF "meta/frames.jsonl" \in cli.files
              THEN [cli EXCEPT !.pc = "tracked",
                               !.files = @ \cup {"meta/trajectory.json"},
                               !.stages = Append(@, "tracking")]
              ELSE [cli EXCEPT !.pc = "raised"]
    /\ UNCHANGED <<tvars, rvars, cvars, qvars, dvars, xvars, wvars>>

\* cli.py:139-149: run_reconstruction reads the trajectory and writes the cloud,
\* unless it raises.
CliReconstruct ==
    /\ cli.pc = "tracked"
    /\ \E written \in BOOLEAN :
           cli' = IF written
                  THEN [cli EXCEPT !.pc = "returned", !.exit_code = 0,
                                   !.files = @ \cup {"reconstruction/pointcloud.ply"},
                                   !.stages = Append(@, "reconstruction")]
                  ELSE [cli EXCEPT !.pc = "raised"]
    /\ UNCHANGED <<tvars, rvars, cvars, qvars, dvars, xvars, wvars>>

\* cli.py:151-154: generate_capture_packets reads the frame records and the
\* trajectory (exporter.py:97-102) and writes the manifest.
CliExport ==
    /\ cli.pc = "dispatch"
    /\ cli.command = "export"
    /\ cli' = IF {"meta/frames.jsonl", "meta/trajectory.json"} \subseteq cli.files
              THEN [cli EXCEPT !.pc = "returned", !.exit_code = 0,
                               !.files = @ \cup {"exports/manifest.json"},
                               !.stages = Append(@, "export")]
              ELSE [cli EXCEPT !.pc = "raised"]
    /\ UNCHANGED <<tvars, rvars, cvars, qvars, dvars, xvars, wvars>>

CliNext ==
    \/ CliParse
    \/ CliDoctor
    \/ CliCalibrate
    \/ CliCapture
    \/ CliTrack
    \/ CliReconstruct
    \/ CliExport

SpecCli == CliInit /\ [][CliNext]_vars

\* ------------------------------------------------- allocate_session_dir
\* What a path of the output root is: nothing, a directory without or with
\* entries, or a file.
PathStates == {"missing", "empty", "nonempty", "file"}

\* Path 1 is output_root/session_id and path k >= 2 is
\* output_root/<session_id>_run0k; the paths after MaxRunDirs do not exist.
PathState(dirs, k) == IF k <= MaxRunDirs THEN dirs[k] ELSE "missing"

\* A path taken for free only when it does not exist.
FreeWhenMissing(state) == state = "missing"

\* utils.py:28, 34: not path.exists() or not any(path.iterdir()).
IsFree(state) == state \in {"missing", "empty"}

\* utils.py:27, 33: the path of a candidate: the session id and its run suffix, 0
\* for none.
Candidate(k) == [session_id |-> "run", suffix |-> IF k = 1 THEN 0 ELSE k]

\* No path returned.
NoCandidate == [session_id |-> "", suffix |-> 0]

\* allocate_session_dir is called on an output root holding any paths.
AllocInit ==
    /\ TrackIdle
    /\ ReconIdle
    /\ CaptureIdle
    /\ selector = NoCall
    /\ ConversionIdle
    /\ CliIdle
    /\ ExportIdle
    /\ WslIdle
    /\ alloc \in [pc : {"base"}, dirs : [1..MaxRunDirs -> PathStates], index : {1},
                  result : {NoCandidate}]

\* One test of a candidate: iterdir raises on a file, a free path is returned,
\* any other sends the search to the next suffix.
AllocTest(k) ==
    LET state == PathState(alloc.dirs, k)
    IN  alloc' = IF state = "file" THEN [alloc EXCEPT !.pc = "raised", !.index = k]
                 ELSE IF IsFree(state)
                 THEN [alloc EXCEPT !.pc = "returned", !.index = k, !.result = Candidate(k)]
                 ELSE [alloc EXCEPT !.pc = "probe", !.index = k + 1]

\* utils.py:26-31: the base path is tested; the search starts at suffix 2.
AllocBase ==
    /\ alloc.pc = "base"
    /\ AllocTest(1)
    /\ UNCHANGED <<tvars, rvars, cvars, qvars, lvars, xvars, wvars>>

\* utils.py:32-36: one turn of the loop.
AllocProbe ==
    /\ alloc.pc = "probe"
    /\ AllocTest(alloc.index)
    /\ UNCHANGED <<tvars, rvars, cvars, qvars, lvars, xvars, wvars>>

AllocNext ==
    \/ AllocBase
    \/ AllocProbe

SpecAlloc == AllocInit /\ [][AllocNext]_vars

\* ------------------------------------------------------------ exporter.py
\* The pose of keyframe k in a trajectory file handed to the exporter.
SessionPose(frame, state) ==
    TrajectoryPose(frame.frame_index, frame.keyframe_index,
                   <<frame.keyframe_index + 1, 0, 0>>, <<Q(1), 0, 0, 0>>, state)

\* The trajectory files of a session with these frame records: for each keyframe
\* a pose of any tracking state, or no pose.
RECURSIVE SessionTrajectories(_)
SessionTrajectories(frames) ==
    IF frames = <<>> THEN {<<>>}
    ELSE LET rest == SessionTrajectories(Tail(frames))
         IN  rest \cup {<<to_dict(SessionPose(Head(frames), state))>> \o t :
                            state \in {"good", "limited", "lost"}, t \in rest}

\* exporter.py:100, 111: pose_by_keyframe.get(keyframe_index); of several poses
\* with one index the dictionary keeps the last.
NoPose == TrajectoryPose(-1, -1, Zero3, <<0, 0, 0, 0>>, "none")

PoseByKeyframe(ps, keyframe_index) ==
    LET hits == {i \in 1..Len(ps) : ps[i].keyframe_index = keyframe_index}
    IN  IF hits = {} THEN NoPose
        ELSE ps[CHOOSE i \in hits : \A j \in hits : j <= i]

\* The pose of a packet taken by position in the trajectory.
PacketPoseByPosition(ps, frame, position) ==
    IF position <= Len(ps) THEN ps[position]
    ELSE TrajectoryPose(frame.frame_index, frame.keyframe_index, Zero3,
                        <<0, 0, 0, Q(1)>>, "limited")

\* exporter.py:111-119: the pose of the packet of `frame`, the frame at `position`.
PacketPose(ps, frame, position) ==
    IF PoseByKeyframe(ps, frame.keyframe_index) = NoPose
    THEN TrajectoryPose(frame.frame_index, frame.keyframe_index, Zero3,
                        <<0, 0, 0, Q(1)>>, "limited")
    ELSE PoseByKeyframe(ps, frame.keyframe_index)

\* exporter.py:40-88: the fields of a packet that depend on the frame and the
\* pose.
_build_packet(frame_record, pose, capture_mode) ==
    [schema_version |-> "v1", packet_id |-> frame_record.keyframe_index,
     capture_mode |-> capture_mode, chunk_index |-> frame_record.keyframe_index,
     pose |-> [translation_m |-> pose.translation_m,
               quaternion_xyzw |-> pose.quaternion_xyzw,
               tracking_state |-> pose.tracking_state, pose_source |-> "slam"]]

\* generate_capture_packets is called on a session directory: its frame records,
\* its trajectory file if any, and the reconstruction files it holds.
ExportInit ==
    /\ TrackIdle
    /\ ReconIdle
    /\ CaptureIdle
    /\ selector = NoCall
    /\ ConversionIdle
    /\ CliIdle
    /\ AllocIdle
    /\ WslIdle
    /\ \E n \in 1..MaxFrames, with_trajectory \in BOOLEAN :
       \E frames \in FrameRecordSets(n) :
       \E trajectory \in (IF with_trajectory THEN SessionTrajectories(frames) ELSE {<<>>}) :
       \E held \in {{}, {"pointcloud_ply"}, {"pointcloud_ply", "mesh_glb"}} :
           export = [pc |-> "start", frame_records |-> frames,
                     trajectory_json |-> IF with_trajectory
                                         THEN [run |-> "earlier", poses |-> trajectory]
                                         ELSE NoFile,
                     reconstruction_files |-> held, capture_mode |-> "keyframes",
                     poses |-> <<>>, done |-> 0, packet_files |-> {},
                     packet_checksums |-> <<>>, manifest |-> NoFile, summary |-> NoFile]

\* exporter.py:96-108: the inputs are loaded; a missing trajectory file raises.
ExportLoad ==
    /\ export.pc = "start"
    /\ export' = IF export.trajectory_json = NoFile
                 THEN [export EXCEPT !.pc = "raised"]
                 ELSE [export EXCEPT !.pc = "loop",
                                     !.poses = [i \in 1..Len(export.trajectory_json.poses) |->
                                                   from_dict(export.trajectory_json.poses[i])]]
    /\ UNCHANGED <<tvars, rvars, cvars, qvars, lvars, dvars, wvars>>

\* exporter.py:109-138: the packet of the next frame record is built, validated
\* and written under its packet id, and its checksum entry appended.
ExportPacket ==
    /\ export.pc = "loop"
    /\ export.done < Len(export.frame_records)
    /\ LET frame  == export.frame_records[export.done + 1]
           packet == _build_packet(frame, PacketPose(export.poses, frame, export.done + 1),
                                   export.capture_mode)
       IN  export' = [export EXCEPT
                          !.done = @ + 1,
                          !.packet_files =
                              {f \in @ : f.packet_id # packet.packet_id} \cup {packet},
                          !.packet_checksums = Append(@, packet.packet_id)]
    /\ UNCHANGED <<tvars, rvars, cvars, qvars, lvars, dvars, wvars>>

\* exporter.py:128, 84-85: validate rejects the packet, or the image of the frame
\* cannot be read.
ExportPacketRaises ==
    /\ export.pc = "loop"
    /\ export.done < Len(export.frame_records)
    /\ export' = [export EXCEPT !.pc = "raised"]
    /\ UNCHANGED <<tvars, rvars, cvars, qvars, lvars, dvars, wvars>>

\* exporter.py:140-164: the manifest is written and the summary returned.
ExportFinish ==
    /\ export.pc = "loop"
    /\ export.done = Len(export.frame_records)
    /\ export' = [export EXCEPT
                      !.pc = "done",
                      !.manifest = [run |-> "this", schema_version |-> "v1",
                                    packet_count |-> Len(export.packet_checksums),
                                    packets |-> export.packet_checksums,
                                    artifacts |-> export.reconstruction_files],
                      !.summary = [packet_count |-> Len(export.packet_checksums)]]
    /\ UNCHANGED <<tvars, rvars, cvars, qvars, lvars, dvars, wvars>>

ExportNext ==
    \/ ExportLoad
    \/ ExportPacket
    \/ ExportPacketRaises
    \/ ExportFinish

SpecExport == ExportInit /\ [][ExportNext]_vars

\* ---------------------------------------------------------- wsl_camera.py
\* wsl_camera.py:110-115: the attach commands for a bus id, the plain one and,
\* when WSL_DISTRO_NAME is set, the one naming the distro.
_candidate_attach_commands(busid, distro_name) ==
    <<[command |-> "attach", busid |-> busid, wsl |-> "plain"]>>
        \o (IF distro_name # ""
            THEN <<[command |-> "attach", busid |-> busid, wsl |-> distro_name]>>
            ELSE <<>>)

\* The attach loop going on to the next command whatever the return code.
AfterAttachNoBreak(attach_rc, attach_idx, count) ==
    IF attach_idx + 1 < count THEN "attach" ELSE "bus"

\* wsl_camera.py:225-240: where the attach loop goes after a command returned:
\* to the next command, or out of the loop on success or after the last.
AfterAttach(attach_rc, attach_idx, count) ==
    IF attach_rc = 0 THEN "bus"
    ELSE IF attach_idx + 1 < count THEN "attach"
    ELSE "bus"

\* What the early returns of attempt_wsl_camera_fix report.
WslResult(attempted, success, devices, matched) ==
    [attempted |-> attempted, success |-> success, linux_video_devices |-> devices,
     matched_busids |-> matched]

\* attempt_wsl_camera_fix is called, WSL_DISTRO_NAME being set or not.
WslInit ==
    /\ TrackIdle
    /\ ReconIdle
    /\ CaptureIdle
    /\ selector = NoCall
    /\ ConversionIdle
    /\ CliIdle
    /\ AllocIdle
    /\ ExportIdle
    /\ \E distro_name \in {"", "Ubuntu-24.04"} :
           wsl = [pc |-> "start", distro_name |-> distro_name, busids |-> <<>>, bus |-> 0,
                  attach_commands |-> <<>>, attach_idx |-> 0, calls |-> <<>>,
                  polls |-> <<>>, result |-> WslResult(FALSE, FALSE, {}, <<>>)]

\* wsl_camera.py:136-216: the checks before the loop, each with its early return:
\* a video device already present, no WSL, no usbipd, `usbipd list` failing, no
\* device listed, no candidate bus id; otherwise the candidates are known.
WslPreflight ==
    /\ wsl.pc = "start"
    /\ \E stop \in {"present", "not_wsl", "no_usbipd", "list_failed", "no_devices",
                    "no_candidates", "none"} :
       \E n \in 1..MaxBusIds :
           wsl' = IF stop = "present"
                  THEN [wsl EXCEPT !.pc = "returned",
                                   !.result = WslResult(FALSE, TRUE, {"/dev/video0"}, <<>>)]
                  ELSE IF stop \in {"not_wsl", "no_usbipd"}
                  THEN [wsl EXCEPT !.pc = "returned",
                                   !.result = WslResult(FALSE, FALSE, {}, <<>>)]
                  ELSE IF stop \in {"list_failed", "no_devices", "no_candidates"}
                  THEN [wsl EXCEPT !.pc = "returned",
                                   !.result = WslResult(TRUE, FALSE, {}, <<>>)]
                  ELSE [wsl EXCEPT !.pc = "bus", !.busids = [i \in 1..n |-> i]]
    /\ UNCHANGED <<tvars, rvars, cvars, qvars, lvars, dvars, xvars>>

\* wsl_camera.py:218-224: the next bus id is bound, whatever bind returns, and its
\* attach commands are listed.
WslBind ==
    /\ wsl.pc = "bus"
    /\ wsl.bus < Len(wsl.busids)
    /\ \E bind_rc \in {0, 1} :
           wsl' = [wsl EXCEPT
                       !.pc = "attach",
                       !.bus = @ + 1,
                       !.calls = Append(@, [command |-> "bind",
                                            busid |-> wsl.busids[wsl.bus + 1],
                                            wsl |-> "", rc |-> bind_rc]),
                       !.attach_commands =
                           _candidate_attach_commands(wsl.busids[wsl.bus + 1],
                                                      wsl.distro_name),
                       !.attach_idx = 0]
    /\ UNCHANGED <<tvars, rvars, cvars, qvars, lvars, dvars, xvars>>

\* wsl_camera.py:225-240: one attach command is issued.
WslAttach ==
    /\ wsl.pc = "attach"
    /\ \E attach_rc \in {0, 1} :
           LET issued == wsl.attach_commands[wsl.attach_idx + 1]
           IN  wsl' = [wsl EXCEPT
                           !.pc = AfterAttach(attach_rc, wsl.attach_idx,
                                              Len(wsl.attach_commands)),
                           !.attach_idx = @ + 1,
                           !.calls = Append(@, [command |-> issued.command,
                                                busid |-> issued.busid,
                                                wsl |-> issued.wsl, rc |-> attach_rc])]
    /\ UNCHANGED <<tvars, rvars, cvars, qvars, lvars, dvars, xvars>>

\* wsl_camera.py:242: the bus ids are exhausted.
WslWait ==
    /\ wsl.pc = "bus"
    /\ wsl.bus = Len(wsl.busids)
    /\ wsl' = [wsl EXCEPT !.pc = "poll"]
    /\ UNCHANGED <<tvars, rvars, cvars, qvars, lvars, dvars, xvars>>

\* wsl_camera.py:243-253: before the deadline the video devices are listed; one
\* present ends the call with success.
WslPoll ==
    /\ wsl.pc = "poll"
    /\ Len(wsl.polls) < MaxPolls
    /\ \E present \in {{}, {"/dev/video0"}} :
           wsl' = IF present # {}
                  THEN [wsl EXCEPT !.pc = "returned", !.polls = Append(@, present),
                                   !.result = WslResult(TRUE, TRUE, present, wsl.busids)]
                  ELSE [wsl EXCEPT !.polls = Append(@, present)]
    /\ UNCHANGED <<tvars, rvars, cvars, qvars, lvars, dvars, xvars>>

\* wsl_camera.py:255-266: the deadline has passed.
WslGiveUp ==
    /\ wsl.pc = "poll"
    /\ wsl' = [wsl EXCEPT !.pc = "returned",
                          !.result = WslResult(TRUE, FALSE, {}, wsl.busids)]
    /\ UNCHANGED <<tvars, rvars, cvars, qvars, lvars, dvars, xvars>>

WslNext ==
    \/ WslPreflight
    \/ WslBind
    \/ WslAttach
    \/ WslWait
    \/ WslPoll
    \/ WslGiveUp

SpecWsl == WslInit /\ [][WslNext]_vars

\* ================================================================ properties
\* ------------------------------------------------------------ tracking
\* C1: the trajectory has exactly one pose per keyframe: while the loop runs the
\* poses emitted so far carry, in order, the frame_index and keyframe_index of
\* the first frame records, and the trajectory record written for n keyframes has
\* n poses, pose i carrying the indices of frame record i.
C1_OnePosePerKeyframe ==
    /\ tpc \in {"loop", "done"} =>
           /\ Len(poses) = idx
           /\ Len(poses) <= Len(frame_records)
           /\ \A i \in 1..Len(poses) :
                  /\ poses[i].frame_index = frame_records[i].frame_index
                  /\ poses[i].keyframe_index = frame_records[i].keyframe_index
    /\ tpc = "done" =>
           /\ Len(trajectory_json.poses) = Len(frame_records)
           /\ trajectory_json.metrics.pose_count = Len(frame_records)
           /\ tracking_summary.pose_count = Len(frame_records)
           /\ \A i \in 1..Len(frame_records) :
                  /\ trajectory_json.poses[i].frame_index = frame_records[i].frame_index
                  /\ trajectory_json.poses[i].keyframe_index = frame_records[i].keyframe_index

\* A finished run over MaxFrames keyframes, two source frames apart, with a lost
\* and a tracked step.
C1_Witness ==
    /\ tpc = "done"
    /\ Len(frame_records) = MaxFrames
    /\ frame_records[MaxFrames].frame_index = 2 * (MaxFrames - 1)
    /\ \E i, j \in 2..MaxFrames :
           /\ trajectory_json.poses[i].tracking_state = "lost"
           /\ trajectory_json.poses[j].tracking_state = "good"

\* C2: a step that ends lost leaves the world pose unchanged: every lost pose
\* after the first has the translation and quaternion of the pose before it, and
\* the last step is lost whatever made it so (unreadable image, too few features,
\* too few matches, no essential matrix, inliers below min_inliers), the world
\* pose being the one the pose before it was emitted from.
C2_LostKeepsWorldPose ==
    tpc \in {"loop", "done"} =>
        /\ \A i \in 2..Len(poses) :
               poses[i].tracking_state = "lost" =>
                   /\ poses[i].translation_m = poses[i - 1].translation_m
                   /\ poses[i].quaternion_xyzw = poses[i - 1].quaternion_xyzw
        /\ (/\ Len(poses) >= 2
            /\ \/ last_step.cause \in {"unreadable", "features", "matches", "essential"}
               \/ last_step.cause = "pose" /\ last_step.inliers < min_inliers) =>
               /\ poses[Len(poses)].tracking_state = "lost"
               /\ poses[Len(poses)].translation_m = poses[Len(poses) - 1].translation_m
               /\ poses[Len(poses)].quaternion_xyzw = poses[Len(poses) - 1].quaternion_xyzw
               /\ world_translation = poses[Len(poses) - 1].translation_m

\* recoverPose reports a motion with too few inliers after the camera has moved
\* and turned.
C2_Witness ==
    /\ tpc = "loop"
    /\ Len(poses) >= 3
    /\ last_step.cause = "pose"
    /\ last_step.inliers < min_inliers
    /\ poses[Len(poses)].tracking_state = "lost"
    /\ poses[Len(poses)].translation_m # Zero3
    /\ poses[Len(poses)].quaternion_xyzw # <<0, 0, 0, Q(1)>>

\* C3: the first pose is at the origin with the identity quaternion (0, 0, 0, 1)
\* and tracking state good, in the list of poses and in the trajectory record.
C3_FirstPose ==
    /\ tpc \in {"loop", "done"} =>
           /\ Len(poses) >= 1
           /\ poses[1].translation_m = <<0, 0, 0>>
           /\ poses[1].quaternion_xyzw = <<0, 0, 0, Q(1)>>
           /\ poses[1].tracking_state = "good"
    /\ tpc = "done" =>
           /\ trajectory_json.poses[1].translation_m = <<0, 0, 0>>
           /\ trajectory_json.poses[1].quaternion_xyzw = <<0, 0, 0, Q(1)>>
           /\ trajectory_json.poses[1].tracking_state = "good"

\* A finished run whose second step was lost and whose threshold and step scale
\* are the largest.
C3_Witness ==
    /\ tpc = "done"
    /\ min_inliers = MaxMinInliers
    /\ step_scale_m = 2
    /\ Len(poses) >= 2
    /\ poses[2].tracking_state = "lost"
    /\ poses[1].tracking_state = "good"

\* C4: a step that reaches recoverPose is classified by its inlier count alone:
\* good when inliers >= 2 * min_inliers, limited when
\* min_inliers <= inliers < 2 * min_inliers, lost when inliers < min_inliers, and
\* these are the only states.
C4_Classification ==
    (tpc \in {"loop", "done"} /\ last_step.cause = "pose") =>
        LET s == poses[Len(poses)].tracking_state
            i == last_step.inliers
            m == min_inliers
        IN  /\ s \in {"good", "limited", "lost"}
            /\ s = "good" <=> i >= 2 * m
            /\ s = "limited" <=> (m <= i /\ i < 2 * m)
            /\ s = "lost" <=> i < m

\* A step whose inlier count is exactly min_inliers and is limited.
C4_Witness ==
    /\ tpc = "loop"
    /\ last_step.cause = "pose"
    /\ min_inliers > 0
    /\ last_step.inliers = min_inliers
    /\ poses[Len(poses)].tracking_state = "limited"

\* C5: good_ratio is the number of good poses, the first included, over the
\* number of poses: it lies between 0 and 1, and it is 1 exactly when every step
\* had at least 2 * min_inliers inliers.
C5_GoodRatio ==
    tpc = "done" =>
        LET ratio == tracking_summary.good_ratio
            written == trajectory_json.poses
        IN  /\ trajectory_json.metrics.good_ratio = ratio
            /\ ratio[2] = Len(written)
            /\ ratio[1] = Cardinality({i \in 1..Len(written) :
                                          written[i].tracking_state = "good"})
            /\ written[1].tracking_state = "good"
            /\ 0 <= ratio[1]
            /\ ratio[1] <= ratio[2]
            /\ ratio[2] >= 1
            /\ ratio[1] = ratio[2] <=> steps_good = Len(frame_records) - 1

\* A finished run with a limited step: the ratio is below 1 and above 0.
C5_Witness ==
    /\ tpc = "done"
    /\ Len(poses) = MaxFrames
    /\ \E i \in 2..MaxFrames : poses[i].tracking_state = "limited"
    /\ tracking_summary.good_ratio[1] = MaxFrames - 1

\* ------------------------------------------------------ reconstruction
Gray == <<FallbackGray, FallbackGray, FallbackGray>>

\* C6: for a trajectory with at least one pose the reconstruction never ends
\* with an empty point cloud: the final points, the vertices the PLY file
\* declares and the recorded point_count are all at least 1.
C6_CloudNeverEmpty ==
    (rpc = "done" /\ Len(rposes) >= 1) =>
        /\ Len(points) >= 1
        /\ pointcloud_ply.vertex_count >= 1
        /\ reconstruction_json.point_count >= 1
        /\ reconstruction_summary.point_count >= 1

\* C7: points and colors have the same length: the blocks of every pair, the
\* merged or fallback cloud, the arrays each writer is given (the ASCII writer
\* after a failure of the open3d block included) and the arrays at the end.
C7_PointsMatchColors ==
    /\ Len(points_world) = Len(colors_world)
    /\ \A b \in 1..Len(points_world) : Len(points_world[b]) = Len(colors_world[b])
    /\ Len(points) = Len(colors)
    /\ pointcloud_ply.run = "this" => pointcloud_ply.args[1] = pointcloud_ply.args[2]

\* C8: when no pair yields points the cloud is exactly one point per pose, at
\* that pose's translation, colored (180, 180, 180), in the final arrays and in
\* the PLY file.
C8_FallbackCloud ==
    (rpc = "done" /\ points_world = <<>>) =>
        /\ Len(points) = Len(rposes)
        /\ points = [k \in 1..Len(rposes) |-> rposes[k].translation_m]
        /\ colors = [k \in 1..Len(rposes) |-> Gray]
        /\ pointcloud_ply.vertex_count = Len(rposes)
        /\ pointcloud_ply.vertices =
               [k \in 1..Len(rposes) |-> <<rposes[k].translation_m, Gray>>]

\* C9: once the open3d block is over the PLY file of this run exists: it is
\* open3d's only when write_point_cloud returned True; when open3d is absent,
\* raises or returns False the file is the ASCII writer's, written from the
\* points and colors as they then stand.
C9_AsciiFallback ==
    rpc \in {"mesh", "summary", "done"} =>
        /\ pointcloud_ply.run = "this"
        /\ cloud_step \in {"absent", "raised_early", "raised_colors", "write_raised",
                           "write_false", "write_ok"}
        /\ cloud_step = "write_ok" =>
               /\ pointcloud_ply.writer = "open3d"
               /\ pointcloud_ply.vertex_count = Len(points)
        /\ cloud_step # "write_ok" =>
               /\ pointcloud_ply.writer = "ascii"
               /\ pointcloud_ply.args = <<Len(points), Len(colors)>>
               /\ pointcloud_ply.vertex_count = Len(points)
               /\ \A k \in 1..Len(pointcloud_ply.vertices) :
                      pointcloud_ply.vertices[k] = <<points[k], colors[k]>>

\* write_point_cloud returned False over an earlier run's file and the run ended
\* with the ASCII file of its own points.
C9_Witness ==
    /\ rpc = "done"
    /\ cloud_step = "write_false"
    /\ pointcloud_ply.writer = "ascii"
    /\ pointcloud_ply.vertex_count >= MeshMinPoints
    /\ reconstruction_json.point_count = pointcloud_ply.vertex_count

\* C10: a run that records mesh_generated = false leaves no mesh artifact for the
\* session, and a run that records mesh_generated = true has exported the hull
\* of at least 30 points.
C10_MeshOmitted ==
    rpc = "done" =>
        /\ ~reconstruction_json.mesh_generated =>
               /\ mesh_path = None
               /\ mesh_glb = NoFile
               /\ "mesh_glb" \notin ManifestArtifacts
        /\ reconstruction_json.mesh_generated =>
               /\ mesh_glb = [run |-> "this", complete |-> TRUE, hull_of |-> Len(points)]
               /\ Len(points) >= MeshMinPoints

\* ------------------------------------------------ the calls on one session
\* C11: a violated precondition raises before anything is written: run_tracking
\* on a session without keyframes raises, and then there is no trajectory record
\* and no summary; run_reconstruction on a session without trajectory record
\* raises, and then there is no point-cloud file, no mesh, no reconstruction
\* record and no summary.  Neither call gets past its start on such a session.
C11_FatalPreconditions ==
    /\ Len(frame_records) = 0 => tpc \in {"start", "raised"}
    /\ tpc = "raised" =>
           /\ Len(frame_records) = 0
           /\ poses = <<>>
           /\ trajectory_json = NoFile
           /\ tracking_summary = NoFile
    /\ trajectory_json = NoFile => rpc \in {"idle", "start", "raised"}
    /\ rpc = "raised" =>
           /\ trajectory_json = NoFile
           /\ pointcloud_ply = NoFile
           /\ mesh_glb = NoFile
           /\ reconstruction_json = NoFile
           /\ reconstruction_summary = NoFile

\* Both calls have raised on a session without keyframes.
C11_Witness ==
    /\ Len(frame_records) = 0
    /\ tpc = "raised"
    /\ rpc = "raised"
    /\ trajectory_json = NoFile
    /\ pointcloud_ply = NoFile

\* C12: the batch always completes: on a session with keyframes run_tracking
\* never raises, takes its pairs one by one in index order and, once called,
\* eventually writes the trajectory record with a pose for every keyframe; on a
\* session with a trajectory record run_reconstruction never raises, visits its
\* pairs one by one in index order and, once called, eventually writes the
\* reconstruction record after the last of the n - 1 pairs.
C12_BatchCompletes ==
    /\ (tpc = "start" /\ rpc = "idle" /\ Len(frame_records) >= 1) ~>
           (/\ tpc = "done"
            /\ idx = Len(frame_records)
            /\ Len(trajectory_json.poses) = Len(frame_records))
    /\ (rpc = "start" /\ trajectory_json # NoFile) ~>
           (/\ rpc = "done"
            /\ ridx = Len(frame_records) - 1
            /\ reconstruction_json.run = "this"
            /\ pointcloud_ply.run = "this")
    /\ [][/\ idx' \in {idx, idx + 1}
          /\ ridx' \in {ridx, ridx + 1}
          /\ (Len(frame_records) >= 1 => tpc' # "raised")
          /\ (trajectory_json # NoFile => rpc' # "raised")]_vars

\* run_reconstruction has finished on MaxFrames keyframes none of whose steps
\* was tracked and none of whose pairs gave a point.
C12_Witness ==
    /\ rpc = "done"
    /\ tpc = "done"
    /\ Len(frame_records) = MaxFrames
    /\ ridx = MaxFrames - 1
    /\ points_world = <<>>
    /\ \A i \in 2..MaxFrames : rposes[i].tracking_state = "lost"
    /\ reconstruction_json.run = "this"

\* ------------------------------------------------------------- capture
\* C13: should_keep_keyframe decides by four rules in priority order: frame index
\* 0 is kept; otherwise a blur score below the blur threshold rejects; otherwise,
\* with no previous image, the frame is kept exactly when its index is a multiple
\* of max(frame_interval, 1); otherwise it is kept exactly when its index is such
\* a multiple and the mean absolute pixel difference to the previous image is at
\* least pixel_delta_threshold.
C13_KeyframeRules ==
    selector.returned =>
        LET c        == selector
            interval == IF c.frame_interval >= 1 THEN c.frame_interval ELSE 1
            on_grid  == \E k \in 0..MaxSourceFrames : c.frame_index = k * interval
            total    == Abs(c.prev_gray[1] - c.current_gray[1])
                        + Abs(c.prev_gray[2] - c.current_gray[2])
        IN  /\ c.frame_index = 0 => c.keep
            /\ (c.frame_index # 0 /\ c.blur_score < c.blur_threshold) => ~c.keep
            /\ (c.frame_index # 0 /\ c.blur_score >= c.blur_threshold
                /\ c.prev_gray = NoImage) => (c.keep <=> on_grid)
            /\ (c.frame_index # 0 /\ c.blur_score >= c.blur_threshold
                /\ c.prev_gray # NoImage)
                   => (c.keep <=> (on_grid /\ total >= 2 * c.pixel_delta_threshold))

\* A sharp frame on the interval, with no previous image, is kept although its
\* images would differ by less than the threshold.
C13_Witness ==
    /\ selector.returned
    /\ selector.keep
    /\ selector.frame_index = 2
    /\ selector.frame_interval = 2
    /\ selector.prev_gray = NoImage
    /\ selector.blur_score >= selector.blur_threshold
    /\ selector.pixel_delta_threshold = 6

\* C14: in capture_session, should_keep_keyframe never keeps a frame after the
\* first whose blur score is below the blur threshold, whatever the interval and
\* the motion; so in 'keyframes' mode every frame record but that of source frame
\* 0, in memory and in frames.jsonl, has a blur score of at least the threshold.
C14_BlurryRejected ==
    /\ (selector.returned /\ selector.frame_index # 0
        /\ selector.blur_score < selector.blur_threshold) => ~selector.keep
    /\ capture_args.capture_mode = "keyframes" =>
           /\ \A i \in 1..Len(capture_records) :
                  capture_records[i].frame_index # 0
                      => capture_records[i].blur_score >= capture_args.blur_threshold
           /\ frames_jsonl # NoFile =>
                  \A i \in 1..Len(frames_jsonl.rows) :
                      frames_jsonl.rows[i].frame_index # 0
                          => frames_jsonl.rows[i].blur_score >= capture_args.blur_threshold

\* Three source frames in 'keyframes' mode: the blurry frame 0 and the sharp frame
\* 1 are written, the blurry frame 2 was rejected.
C14_Witness ==
    /\ cpc = "done"
    /\ capture_args.capture_mode = "keyframes"
    /\ Len(frames_jsonl.rows) = 2
    /\ frames_jsonl.rows[1].blur_score < capture_args.blur_threshold
    /\ frames_jsonl.rows[2].frame_index = 1
    /\ selector.frame_index = 2
    /\ selector.blur_score < selector.blur_threshold
    /\ ~selector.keep

\* C14 as stated: a frame with a blur score below the threshold is never kept,
\* whatever its index, and no frame record of capture_session has a blur score
\* below the blur threshold.
C14_NoBlurryRecord ==
    /\ (selector.returned /\ selector.blur_score < selector.blur_threshold)
           => ~selector.keep
    /\ \A i \in 1..Len(capture_records) :
           capture_records[i].blur_score >= capture_args.blur_threshold
    /\ frames_jsonl # NoFile =>
           \A i \in 1..Len(frames_jsonl.rows) :
               frames_jsonl.rows[i].blur_score >= capture_args.blur_threshold

\* C15: the frame records of capture_session, in either mode, have the keyframe
\* indices 0, 1, ..., k-1 in order and strictly increasing frame indices, each the
\* index of a source frame already read; frames.jsonl holds these records.
C15_DenseIndices ==
    /\ \A i \in 1..Len(capture_records) :
           /\ capture_records[i].keyframe_index = i - 1
           /\ capture_records[i].frame_index >= 0
           /\ capture_records[i].frame_index < source_index
           /\ i > 1 => capture_records[i - 1].frame_index < capture_records[i].frame_index
    /\ frames_jsonl # NoFile => frames_jsonl.rows = capture_records
    /\ cpc = "done" => (frames_jsonl # NoFile /\ capture_records # <<>>)

\* Frames 0 and 2 of three were kept in 'keyframes' mode: the frame indices have a
\* gap, the keyframe indices have none.
C15_Witness ==
    /\ cpc = "done"
    /\ capture_args.capture_mode = "keyframes"
    /\ Len(frames_jsonl.rows) = 2
    /\ frames_jsonl.rows[2].frame_index = 2
    /\ frames_jsonl.rows[2].keyframe_index = 1

\* ------------------------------------------------------ reconstruction
\* C16: the matches used for a pair never number more than the cap of the quality
\* profile, 1200 for 'high' and 500 for 'medium', however many candidates the
\* matcher returns; and they are the matches of lowest distance: no match left
\* out is nearer than a match used, and none is left out below the cap.
C16_MatchCap ==
    last_pair.matches # -1 =>
        LET used == last_pair.kept
            left == last_pair.dropped
            Total(runs) == IF Len(runs) = 0 THEN 0
                           ELSE IF Len(runs) = 1 THEN runs[1].count
                           ELSE runs[1].count + runs[2].count
        IN  /\ Len(used) <= 2 /\ Len(left) <= 2
            /\ last_pair.matches = Total(used)
            /\ quality = "high" => last_pair.matches <= 1200
            /\ quality = "medium" => last_pair.matches <= 500
            /\ \A i \in 1..Len(used) : \A j \in 1..Len(left) :
                   used[i].distance <= left[j].distance
            /\ left # <<>> => last_pair.matches = (IF quality = "high" THEN 1200 ELSE 500)
            /\ Total(used) + Total(left) \in MatchCandidates

\* A pair of a 'medium' run with more than 500 candidates: 500 matches are used,
\* at both distances, and only far ones are left out.
C16_Witness ==
    /\ quality = "medium"
    /\ last_pair.matches = 500
    /\ Len(last_pair.kept) = 2
    /\ last_pair.kept[1].distance < last_pair.kept[2].distance
    /\ last_pair.dropped # <<>>

\* ---------------------------------------------------------- conversions
\* C17: a rotation matrix converted to a quaternion and back is the same matrix,
\* whether it was handed in or was itself produced from a quaternion; the
\* identity and the three 180-degree axis rotations, one for each branch of the
\* extraction, give the quaternions (0,0,0,1), (1,0,0,0), (0,1,0,0), (0,0,1,0)
\* and come back exactly.
C17_MatrixRoundTrip ==
    LET t == conversion.trail
        Expected(m, q) ==
            (conversion.kind = "matrix" /\ conversion.input = m)
                => /\ Len(t) >= 1 => t[1] = q
                   /\ Len(t) >= 2 => t[2] = m
    IN  /\ (conversion.kind = "matrix" /\ Len(t) >= 2) => t[2] = conversion.input
        /\ (conversion.kind = "quaternion" /\ Len(t) >= 3) => t[3] = t[1]
        /\ Expected(<<<<1, 0, 0>>, <<0, 1, 0>>, <<0, 0, 1>>>>, <<0, 0, 0, 2>>)
        /\ Expected(<<<<1, 0, 0>>, <<0, -1, 0>>, <<0, 0, -1>>>>, <<2, 0, 0, 0>>)
        /\ Expected(<<<<-1, 0, 0>>, <<0, 1, 0>>, <<0, 0, -1>>>>, <<0, 2, 0, 0>>)
        /\ Expected(<<<<-1, 0, 0>>, <<0, -1, 0>>, <<0, 0, 1>>>>, <<0, 0, 2, 0>>)

\* A 120-degree rotation, of trace 0, has made the round trip.
C17_Witness ==
    /\ conversion.kind = "matrix"
    /\ conversion.input = <<<<0, 0, 1>>, <<1, 0, 0>>, <<0, 1, 0>>>>
    /\ Len(conversion.trail) = 2
    /\ conversion.trail[1] = <<1, 1, 1, 1>>
    /\ conversion.trail[2] = conversion.input

\* C18: a unit quaternion q converted to a matrix and back is q or -q, and every
\* quaternion the conversion produces has norm 1 (squared norm 4 in half units).
C18_QuaternionRoundTrip ==
    LET t == conversion.trail
        Unit(q) == q[1] * q[1] + q[2] * q[2] + q[3] * q[3] + q[4] * q[4] = 4
        Neg(q) == <<-q[1], -q[2], -q[3], -q[4]>>
    IN  /\ (conversion.kind = "quaternion" /\ Len(t) >= 2)
               => (Unit(t[2]) /\ (t[2] = conversion.input \/ t[2] = Neg(conversion.input)))
        /\ (conversion.kind = "matrix" /\ Len(t) >= 3)
               => (Unit(t[1]) /\ Unit(t[3]) /\ (t[3] = t[1] \/ t[3] = Neg(t[1])))

\* A quaternion with negative z and w came back as its opposite.
C18_Witness ==
    /\ conversion.kind = "quaternion"
    /\ conversion.input = <<1, -1, -1, -1>>
    /\ Len(conversion.trail) >= 2
    /\ conversion.trail[2] = <<-1, 1, 1, 1>>

\* ------------------------------------------------------------------ cli
\* C19: main, given the command `run` with its options, does not leave by an
\* exception or an exit; when it has returned, the exit code is 0, the session
\* directory holds frames.jsonl, trajectory.json, pointcloud.ply and manifest.json,
\* and capture, tracking, reconstruction and export have run in this order.
C19_RunChains ==
    (cli.pc # "idle" /\ cli.command = "run" /\ cli.options_ok) =>
        /\ cli.pc \notin {"exited", "raised"}
        /\ cli.pc = "returned" =>
               /\ cli.exit_code = 0
               /\ SessionFiles \subseteq cli.files
               /\ cli.stages = <<"capture", "tracking", "reconstruction", "export">>

\* ------------------------------------------------------------- utils
\* C20: allocate_session_dir never returns a directory that exists with entries.
\* It returns output_root/session_id when that is missing or empty; otherwise it
\* returns output_root/<session_id>_runNN for the smallest NN >= 2 that is missing
\* or empty, every candidate before it being a directory with entries.  (It
\* raises, returning nothing, only when the first candidate that is not such a
\* directory is a file.)
C20_FreshSessionDir ==
    LET State(k) == IF k <= MaxRunDirs THEN alloc.dirs[k] ELSE "missing"
        first == CHOOSE k \in 1..(MaxRunDirs + 1) :
                     /\ State(k) # "nonempty"
                     /\ \A j \in 1..(k - 1) : State(j) = "nonempty"
    IN  /\ alloc.pc = "returned" =>
               /\ State(first) \in {"missing", "empty"}
               /\ alloc.result.session_id = "run"
               /\ alloc.result.suffix = (IF first = 1 THEN 0 ELSE first)
               /\ alloc.result.suffix # 1
        /\ alloc.pc = "raised" => State(first) = "file"
        /\ alloc.pc = "probe" =>
               (alloc.index >= 2 /\ \A j \in 1..(alloc.index - 1) : State(j) = "nonempty")

\* 'run' and 'run_run02' hold entries and 'run_run03' is an empty directory:
\* 'run_run03' is returned.
C20_Witness ==
    /\ alloc.pc = "returned"
    /\ alloc.dirs[1] = "nonempty"
    /\ alloc.dirs[2] = "nonempty"
    /\ alloc.dirs[3] = "empty"
    /\ alloc.result = [session_id |-> "run", suffix |-> 3]

\* ------------------------------------------------------------- exporter
\* C21: generate_capture_packets writes one packet per frame record: while it
\* runs, the packets written are those of the frame records handled so far, one
\* file each; when it has returned, the packet_count of the summary and of the
\* manifest are the number of frame records, and the pose of each packet is the
\* trajectory pose with the keyframe index of its frame record, or, for want of
\* one, the identity pose with tracking_state 'limited'.
C21_OnePacketPerFrame ==
    export.pc \in {"loop", "done", "raised"} =>
        LET frames == export.frame_records
            given  == IF export.trajectory_json = NoFile THEN <<>>
                      ELSE export.trajectory_json.poses
            Packet(k) == CHOOSE f \in export.packet_files : f.packet_id = frames[k].keyframe_index
        IN  /\ Cardinality(export.packet_files) = export.done
            /\ Len(export.packet_checksums) = export.done
            /\ \A k \in 1..export.done :
                   /\ \E f \in export.packet_files : f.packet_id = frames[k].keyframe_index
                   /\ export.packet_checksums[k] = frames[k].keyframe_index
                   /\ Packet(k).chunk_index = frames[k].keyframe_index
                   /\ \A i \in 1..Len(given) :
                          given[i].keyframe_index = frames[k].keyframe_index =>
                              /\ Packet(k).pose.translation_m = given[i].translation_m
                              /\ Packet(k).pose.quaternion_xyzw = given[i].quaternion_xyzw
                              /\ Packet(k).pose.tracking_state = given[i].tracking_state
                   /\ (\A i \in 1..Len(given) :
                           given[i].keyframe_index # frames[k].keyframe_index) =>
                          /\ Packet(k).pose.translation_m = <<0, 0, 0>>
                          /\ Packet(k).pose.quaternion_xyzw = <<0, 0, 0, 2>>
                          /\ Packet(k).pose.tracking_state = "limited"
            /\ export.pc = "done" =>
                   /\ export.done = Len(frames)
                   /\ export.summary.packet_count = Len(frames)
                   /\ export.manifest.packet_count = Len(frames)

\* A session of MaxFrames keyframes whose trajectory has a lost pose for the last
\* keyframe only: the first packet has the identity pose and 'limited', the last
\* has the pose of the trajectory.
C21_Witness ==
    /\ export.pc = "done"
    /\ Len(export.frame_records) = MaxFrames
    /\ export.manifest.packet_count = MaxFrames
    /\ Len(export.poses) = 1
    /\ export.poses[1].keyframe_index = MaxFrames - 1
    /\ \E f \in export.packet_files :
           /\ f.packet_id = MaxFrames - 1
           /\ f.pose.tracking_state = "lost"
           /\ f.pose.translation_m = <<MaxFrames, 0, 0>>
    /\ \E f \in export.packet_files :
           /\ f.packet_id = 0
           /\ f.pose.tracking_state = "limited"

\* ----------------------------------------------------------- wsl camera
\* C22: in attempt_wsl_camera_fix the commands for a bus id are issued in order:
\* its bind, then the plain `--wsl` attach, then, only when WSL_DISTRO_NAME is set
\* and only after the plain attach failed, the attach naming the distro; nothing
\* is issued for a bus id after one of its attaches succeeded; and the call
\* reports success as soon as a listing shows a video device, and only then.
C22_AttachOrder ==
    wsl.pc # "idle" =>
        LET calls == wsl.calls
            Attaches(b) == {i \in 1..Len(calls) :
                                calls[i].command = "attach" /\ calls[i].busid = b}
        IN  /\ \A i \in 1..Len(calls) :
                   calls[i].command = "attach" =>
                       /\ i > 1
                       /\ calls[i - 1].busid = calls[i].busid
                       /\ calls[i].wsl = "plain" => calls[i - 1].command = "bind"
                       /\ calls[i].wsl # "plain" =>
                              /\ wsl.distro_name # ""
                              /\ calls[i].wsl = wsl.distro_name
                              /\ calls[i - 1].command = "attach"
                              /\ calls[i - 1].wsl = "plain"
                              /\ calls[i - 1].rc # 0
            /\ \A i \in 1..Len(calls) : \A j \in (i + 1)..Len(calls) :
                   (calls[i].command = "attach" /\ calls[i].rc = 0)
                       => calls[j].busid # calls[i].busid
            /\ \A b \in 1..MaxBusIds : Cardinality(Attaches(b)) <= 2
            /\ \A k \in 1..Len(wsl.polls) :
                   wsl.polls[k] # {} =>
                       /\ k = Len(wsl.polls)
                       /\ wsl.pc = "returned"
                       /\ wsl.result.success
                       /\ wsl.result.linux_video_devices = wsl.polls[k]
            /\ (wsl.pc = "returned" /\ wsl.result.success) =>
                   wsl.result.linux_video_devices # {}
            /\ (wsl.pc = "returned" /\ wsl.result.attempted /\ wsl.calls # <<>>
                /\ ~wsl.result.success) => \A k \in 1..Len(wsl.polls) : wsl.polls[k] = {}

\* The plain attach of bus id 1 failed, the attach naming the distro succeeded,
\* and the second listing showed the device.
C22_Witness ==
    /\ wsl.pc = "returned"
    /\ wsl.result.success
    /\ Len(wsl.busids) = 1
    /\ Len(wsl.calls) = 3
    /\ wsl.calls[2].wsl = "plain"
    /\ wsl.calls[2].rc = 1
    /\ wsl.calls[3].wsl = "Ubuntu-24.04"
    /\ wsl.calls[3].rc = 0
    /\ Len(wsl.polls) = 2

\* ------------------------------------------------------ tracking, steps
\* C23: a step of run_tracking that is not lost moves the world translation by
\* the rescaled relative translation turned with the world rotation as it stood
\* before the step, and composes the relative rotation on the right of that
\* rotation; a lost step leaves both; every step handles the next frame record
\* and appends its pose, made from the world pose after the step.
C23_TranslateThenRotate ==
    [][idx' # idx =>
          /\ idx' = idx + 1
          /\ Len(poses') = idx'
          /\ idx >= 1 =>
                 LET pose == poses'[idx']
                     norm == Sqrt(Dot(last_step'.rel_translation, last_step'.rel_translation))
                     rel_t == IF norm > 0
                              THEN [i \in 1..3 |->
                                       (last_step'.rel_translation[i] * step_scale_m) \div norm]
                              ELSE last_step'.rel_translation
                     moved == <<world_rotation[1][1] * rel_t[1] + world_rotation[1][2] * rel_t[2]
                                    + world_rotation[1][3] * rel_t[3],
                                world_rotation[2][1] * rel_t[1] + world_rotation[2][2] * rel_t[2]
                                    + world_rotation[2][3] * rel_t[3],
                                world_rotation[3][1] * rel_t[1] + world_rotation[3][2] * rel_t[2]
                                    + world_rotation[3][3] * rel_t[3]>>
                 IN  /\ poses' = Append(poses, pose)
                     /\ pose.keyframe_index = idx
                     /\ pose.translation_m = world_translation'
                     /\ pose.quaternion_xyzw = rotation_matrix_to_quaternion_xyzw(world_rotation')
                     /\ pose.tracking_state = "lost" =>
                            /\ world_translation' = world_translation
                            /\ world_rotation' = world_rotation
                     /\ pose.tracking_state # "lost" =>
                            /\ last_step'.cause = "pose"
                            /\ world_translation' =
                                   <<world_translation[1] + moved[1],
                                     world_translation[2] + moved[2],
                                     world_translation[3] + moved[3]>>
                            /\ world_rotation' =
                                   MatMul(world_rotation, last_step'.rel_rotation)]_vars

\* Two tracked steps of length 1 along z, the first with a half turn about x: the
\* second leads back to the origin.
C23_Witness ==
    /\ step_scale_m = 1
    /\ Len(poses) = 3
    /\ poses[2].tracking_state # "lost"
    /\ poses[2].translation_m = <<0, 0, 1>>
    /\ poses[2].quaternion_xyzw = <<2, 0, 0, 0>>
    /\ poses[3].tracking_state # "lost"
    /\ poses[3].translation_m = <<0, 0, 0>>
    /\ last_step.cause = "pose"
    /\ last_step.rel_translation = <<0, 0, 2>>

\* C24: in every step of run_tracking that is not lost, a relative translation
\* that is not the zero vector is brought to the length step_scale_m before it is
\* applied, so the world position of the pose lies exactly step_scale_m from that
\* of the pose before; a zero relative translation is applied as it is and the
\* position stays.
C24_FixedStepLength ==
    [][(idx' = idx + 1 /\ idx >= 1 /\ poses'[idx'].tracking_state # "lost") =>
          LET before == poses[idx].translation_m
              after  == poses'[idx'].translation_m
              rel    == last_step'.rel_translation
              moved  == (after[1] - before[1]) * (after[1] - before[1])
                        + (after[2] - before[2]) * (after[2] - before[2])
                        + (after[3] - before[3]) * (after[3] - before[3])
          IN  /\ before = world_translation
              /\ after = world_translation'
              /\ rel # <<0, 0, 0>> => moved = step_scale_m * step_scale_m
              /\ rel = <<0, 0, 0>> => moved = 0]_vars

\* A relative translation of length 2 was applied with step_scale_m = 1 under a
\* world rotation that is not the identity.
C24_Witness ==
    /\ step_scale_m = 1
    /\ Len(poses) = 3
    /\ last_step.cause = "pose"
    /\ last_step.rel_translation = <<0, 0, 2>>
    /\ poses[3].tracking_state = "limited"
    /\ poses[2].quaternion_xyzw # <<0, 0, 0, 2>>
    /\ poses[2].translation_m = <<1, 0, 0>>
    /\ poses[3].translation_m # poses[2].translation_m

\* C24 as stated: whenever pose i is 'good' or 'limited', its world position lies
\* exactly step_scale_m from that of pose i-1.
C24_AlwaysStepLength ==
    \A i \in 2..Len(poses) :
        poses[i].tracking_state \in {"good", "limited"} =>
            LET before == poses[i - 1].translation_m
                after  == poses[i].translation_m
            IN  (after[1] - before[1]) * (after[1] - before[1])
                + (after[2] - before[2]) * (after[2] - before[2])
                + (after[3] - before[3]) * (after[3] - before[3])
                    = step_scale_m * step_scale_m

\* ------------------------------------------------ reconstruction, poses
\* C25: the points triangulated from the pair (i, i+1) enter the cloud turned
\* with the rotation and moved by the translation of the trajectory pose of
\* keyframe i, the first of the pair; a pair without points adds nothing; so the
\* last pose of the trajectory places no points.
C25_PlacedWithFirstPose ==
    [][ridx' = ridx + 1 =>
          LET pose  == rposes[ridx + 1]
              R     == quaternion_xyzw_to_rotation_matrix(pose.quaternion_xyzw)
              t     == pose.translation_m
              seed  == last_pair'.seed
              rows  == {j \in 1..last_pair'.matches :
                            /\ seed[3] > 0
                            /\ (seed[1] + j - 1) * (seed[1] + j - 1) + seed[2] * seed[2]
                                   + seed[3] * seed[3] < 100 * 100}
              Local(j) == <<seed[1] + j - 1, seed[2], seed[3]>>
              World(j) == <<R[1][1] * Local(j)[1] + R[1][2] * Local(j)[2]
                                + R[1][3] * Local(j)[3] + t[1],
                            R[2][1] * Local(j)[1] + R[2][2] * Local(j)[2]
                                + R[2][3] * Local(j)[3] + t[2],
                            R[3][1] * Local(j)[1] + R[3][2] * Local(j)[2]
                                + R[3][3] * Local(j)[3] + t[3]>>
          IN  /\ pose.keyframe_index = ridx
              /\ ridx + 1 < Len(rposes)
              /\ last_pair'.outcome # "points" =>
                     (points_world' = points_world /\ colors_world' = colors_world)
              /\ last_pair'.outcome = "points" =>
                     /\ rows # {}
                     /\ Len(points_world') = Len(points_world) + 1
                     /\ SubSeq(points_world', 1, Len(points_world)) = points_world
                     /\ LET block == points_world'[Len(points_world')]
                        IN  /\ Len(block) = Cardinality(rows)
                            /\ \A j \in rows :
                                   block[Cardinality({k \in rows : k <= j})] = World(j)]_vars

\* The second pair of a session of three keyframes gave points, and the poses of
\* keyframes 1 and 2 differ in translation and rotation.
C25_Witness ==
    /\ rpc = "pairs"
    /\ ridx = 2
    /\ Len(rposes) = 3
    /\ last_pair.outcome = "points"
    /\ rposes[2].translation_m # rposes[3].translation_m
    /\ rposes[2].quaternion_xyzw # rposes[3].quaternion_xyzw
    /\ rposes[2].quaternion_xyzw # <<0, 0, 0, 2>>
    /\ points_world # <<>>

\* ------------------------------------------------ capture, selector state
\* C26: between frames capture_session carries only the grey image of the frame
\* kept last: a frame that is rejected leaves that image and the records as
\* they were, and a frame that is kept gets one record and its own image
\* becomes the image kept last, in both capture modes.
C26_PreviousOnlyOnKeep ==
    [][source_index' = source_index + 1 =>
          /\ frame_gray' \in Images
          /\ \/ /\ capture_records' = capture_records
                /\ previous_keyframe_gray' = previous_keyframe_gray
             \/ /\ Len(capture_records') = Len(capture_records) + 1
                /\ SubSeq(capture_records', 1, Len(capture_records)) = capture_records
                /\ capture_records'[Len(capture_records')].frame_index = source_index
                /\ previous_keyframe_gray' = frame_gray'
          /\ capture_args.capture_mode = "keyframes" =>
                 /\ selector'.prev_gray = previous_keyframe_gray
                 /\ selector'.current_gray = frame_gray'
                 /\ selector'.frame_index = source_index
                 /\ selector'.keep <=> capture_records' # capture_records]_vars

\* Frame 0 was kept and frame 1, with another image, was rejected: the image
\* kept last is still that of frame 0.
C26_Witness ==
    /\ cpc = "loop"
    /\ source_index = 2
    /\ Len(capture_records) = 1
    /\ frame_gray # previous_keyframe_gray
    /\ previous_keyframe_gray # NoImage
    /\ selector.prev_gray = previous_keyframe_gray
    /\ ~selector.keep

\* ------------------------------------------------ reconstruction, final set
\* C27: the outlier filter changes the merged cloud only when open3d ran and
\* the cloud had more than 50 points; the points of the written PLY file, the
\* vertex count it declares, the input of the hull of an exported mesh and the
\* point_count of reconstruction.json and of the summary are all those of the
\* final point set.
C27_OneFinalPointSet ==
    LET merged == IF points_world # <<>> THEN Flatten(points_world)
                  ELSE [i \in 1..Len(rposes) |-> rposes[i].translation_m]
    IN  /\ rpc \in {"mesh", "summary", "done"} =>
               /\ points # merged =>
                      /\ Len(merged) > 50
                      /\ cloud_step \in {"raised_colors", "write_raised", "write_false",
                                         "write_ok"}
               /\ pointcloud_ply.run = "this"
               /\ pointcloud_ply.vertex_count = Len(points)
               /\ Len(pointcloud_ply.vertices) = Len(points)
               /\ \A k \in 1..Len(points) : pointcloud_ply.vertices[k][1] = points[k]
        /\ rpc \in {"summary", "done"} /\ mesh_path # None =>
               /\ mesh_glb.run = "this"
               /\ mesh_glb.hull_of = Len(points)
        /\ rpc = "done" =>
               /\ reconstruction_json.point_count = pointcloud_ply.vertex_count
               /\ reconstruction_summary.point_count = pointcloud_ply.vertex_count
               /\ reconstruction_json.point_count = Len(points)

\* A cloud of more than 50 points lost a point to the filter, open3d wrote the
\* file, and the hull of what was left was exported.
C27_Witness ==
    /\ rpc = "done"
    /\ cloud_step = "write_ok"
    /\ points_world # <<>>
    /\ Len(points) > 50
    /\ Len(points) < Len(Flatten(points_world))
    /\ mesh_path # None
    /\ reconstruction_json.point_count = Len(points)

\* ------------------------------------------------ tracking, ratio floor
\* C28: pose 0 is good and is counted, so a finished run reports a good_ratio
\* of at least 1 / pose_count, never 0: exactly 1 / pose_count when every step
\* is lost, and 1 / 1 for a session of a single keyframe.
C28_RatioFloor ==
    tpc = "done" =>
        LET ratio   == tracking_summary.good_ratio
            written == trajectory_json.poses
        IN  /\ ratio[2] = tracking_summary.pose_count
            /\ ratio[2] = Len(frame_records)
            /\ ratio[1] >= 1
            /\ trajectory_json.metrics.good_ratio[1] >= 1
            /\ (\A i \in 2..Len(written) : written[i].tracking_state = "lost")
                   => ratio = <<1, Len(written)>>
            /\ Len(frame_records) = 1 => ratio = <<1, 1>>

\* A finished run of the longest session in which every step was lost.
C28_Witness ==
    /\ tpc = "done"
    /\ Len(poses) = MaxFrames
    /\ \A i \in 2..MaxFrames : poses[i].tracking_state = "lost"
    /\ tracking_summary.good_ratio = <<1, MaxFrames>>

\* ------------------------------------------------ conversions, any matrix
\* C29: for any 3x3 matrix, when the trace is not positive the branch taken by
\* rotation_matrix_to_quaternion_xyzw is that of a largest diagonal entry and
\* the quantity under its square root is at least 1, so s is at least 2; in
\* every branch nothing is divided by zero, no square root of a negative
\* number is taken, the norm is positive and the identity fallback is not
\* taken.
C29_MaximalDiagonalBranch ==
    conversion.kind = "any" /\ conversion.trail # <<>> =>
        LET m     == conversion.input
            parts == conversion.parts
            trace == m[1][1] + m[2][2] + m[3][3]
            k     == IF parts.branch = "x" THEN 1 ELSE IF parts.branch = "y" THEN 2 ELSE 3
        IN  /\ trace > 0 <=> parts.branch = "w"
            /\ trace <= 0 =>
                   /\ \A i \in 1..3 : m[k][k] >= m[i][i]
                   /\ parts.radicand = 1 + 2 * m[k][k] - trace
                   /\ parts.radicand >= 1
                   /\ parts.s >= 2
                   /\ parts.raw[k] >= 1
            /\ parts.radicand >= 0
            /\ parts.s # 0
            /\ parts.s * parts.s <= 4 * parts.radicand
            /\ parts.norm > 0
            /\ parts.outcome = "quaternion"
            /\ \A i \in 1..4 :
                   conversion.trail[1][i] = (2 * parts.raw[i]) \div parts.norm

\* A matrix that is no rotation, with a negative diagonal whose largest entry is
\* the second, has been converted.
C29_Witness ==
    /\ conversion.kind = "any"
    /\ conversion.trail # <<>>
    /\ conversion.input[1][1] = -MaxEntry
    /\ conversion.input[2][2] = -1
    /\ conversion.input[3][3] = -MaxEntry
    /\ conversion.input[1][2] = 1
    /\ conversion.input[2][1] = 1
    /\ conversion.parts.branch = "y"

\* ------------------------------------------------ capture, first frame
\* C30: in both capture modes the first record of capture_session is source
\* frame 0 with keyframe_index 0; once frame 0 is read an image is held as the
\* last kept one, so no frame after frame 0 is judged without a previous
\* image; and the run raises "No keyframes were kept" only when there is no
\* source frame.
C30_FirstFrameKept ==
    /\ capture_records # <<>> =>
           /\ capture_records[1].frame_index = 0
           /\ capture_records[1].keyframe_index = 0
    /\ source_index >= 1 =>
           /\ capture_records # <<>>
           /\ previous_keyframe_gray # NoImage
    /\ (selector # NoCall /\ selector.frame_index > 0) => selector.prev_gray # NoImage
    /\ cpc = "raised" => capture_args.source_frames = 0
    /\ (cpc \in {"done", "raised"} /\ capture_args.source_frames > 0) =>
           /\ cpc = "done"
           /\ frames_jsonl.rows[1].frame_index = 0

\* A keyframes run whose frame 0 is blurred and is the only frame kept of the
\* longest source sequence.
C30_Witness ==
    /\ cpc = "done"
    /\ capture_args.capture_mode = "keyframes"
    /\ capture_args.source_frames = MaxSourceFrames
    /\ Len(capture_records) = 1
    /\ capture_records[1].frame_index = 0
    /\ capture_records[1].blur_score < capture_args.blur_threshold
    /\ selector.frame_index = MaxSourceFrames - 1
    /\ selector.prev_gray # NoImage

====
